---- MODULE Spec2Model ----
(***************************************************************************)
(* hive-tx-cli: configuration resolution, operation building, broadcast    *)
(* and confirmation polling, modelled as a state machine.                  *)
(*                                                                         *)
(* JavaScript values are modelled as follows.  A string is a TLA+ string;  *)
(* `undefined` is the string Undef.  A plain object is a function from a   *)
(* finite set of key strings to values.  A value that may be null is a     *)
(* record with an isNull flag (Null / Some(o)).                            *)
(***************************************************************************)
EXTENDS Integers, Sequences, FiniteSets, TLC

Undef == "<undefined>"

\* JavaScript truthiness of a string-or-undefined value.
Truthy(v) == v \notin {Undef, ""}

\* a || b
Or(a, b) == IF Truthy(a) THEN a ELSE b

\* o.k (undefined when the key is missing)
Get(o, k) == IF k \in DOMAIN o THEN o[k] ELSE Undef

\* { ...a, ...b }
Spread(a, b) ==
  [k \in (DOMAIN a) \cup (DOMAIN b) |-> IF k \in DOMAIN b THEN b[k] ELSE a[k]]

EmptyObj == [k \in {} |-> Undef]

Null == [isNull |-> TRUE]
Some(o) == [isNull |-> FALSE, obj |-> o]

\* c?.k
OptGet(c, k) == IF c.isNull THEN Undef ELSE Get(c.obj, k)

(***************************************************************************)
(* Configuration resolver (config.ts)                                      *)
(***************************************************************************)

ConfigKeys == {"account", "postingKey", "activeKey", "node"}

NoFile == [state |-> "missing", json |-> EmptyObj]
CorruptFile == [state |-> "corrupt", json |-> EmptyObj]

\* fs.writeJson: JSON.stringify drops the properties whose value is undefined.
writeJson(o) == [state |-> "ok", json |-> [k \in {x \in DOMAIN o : o[x] # Undef} |-> o[k]]]

\* An environment reader that takes the account only.
getEnvConfigAccountOnly(e) ==
  [k \in {x \in {"account"} : Truthy(e[x])} |-> e[k]]

getEnvConfig(e) ==
  [k \in {x \in {"account", "postingKey", "activeKey"} : Truthy(e[x])} |-> e[k]]

\* A resolver in which the file wins over the environment.
getConfigFileFirst(e, f) ==
  LET envConfig == getEnvConfig(e)
      envOnly == IF ~Truthy(Get(envConfig, "account"))
                 THEN Null
                 ELSE Some([account |-> Or(Get(envConfig, "account"), ""),
                            postingKey |-> Get(envConfig, "postingKey"),
                            activeKey |-> Get(envConfig, "activeKey")])
  IN IF f.state # "ok"
     THEN envOnly
     ELSE LET mergedConfig == Spread(envConfig, f.json)
          IN Some(Spread(mergedConfig, [account |-> Or(Get(mergedConfig, "account"), "")]))

getConfig(e, f) ==
  LET envConfig == getEnvConfig(e)
      envOnly == IF ~Truthy(Get(envConfig, "account"))
                 THEN Null
                 ELSE Some([account |-> Or(Get(envConfig, "account"), ""),
                            postingKey |-> Get(envConfig, "postingKey"),
                            activeKey |-> Get(envConfig, "activeKey")])
  IN IF f.state # "ok"
     THEN envOnly
     ELSE LET mergedConfig == Spread(f.json, envConfig)
          IN Some(Spread(mergedConfig, [account |-> Or(Get(mergedConfig, "account"), "")]))

\* A save that persists the credentials only.
saveConfigCredentialsOnly(c) ==
  writeJson([k \in (DOMAIN c) \ {"node"} |-> c[k]])

\* saveConfig(config): the file content after the write.
saveConfig(c) == writeJson(c)

\* clearConfig(): the file content after the call.
clearConfig(f) == IF f.state # "missing" THEN NoFile ELSE f

\* A lookup in which the configuration wins over the flag.
getAccountNameConfigFirst(c, o, e) == Or(Or(OptGet(c, "account"), o.account), e.account)

getAccountName(c, o, e) == Or(Or(o.account, OptGet(c, "account")), e.account)


(***************************************************************************)
(* parseHiveUrl (utils.ts).  A string that is inspected character by       *)
(* character is a sequence of one-character strings.                       *)
(***************************************************************************)

Lower == {"a", "b", "c", "d", "e", "f", "g", "h", "i", "j", "k", "l", "m",
          "n", "o", "p", "q", "r", "s", "t", "u", "v", "w", "x", "y", "z"}
Digit == {"0", "1", "2", "3", "4", "5", "6", "7", "8", "9"}

\* [a-z0-9._-] and [a-z0-9-]
AuthorChar == Lower \cup Digit \cup {".", "_", "-"}
PermlinkChar == Lower \cup Digit \cup {"-"}

RECURSIVE Join(_)
Join(cs) == IF cs = <<>> THEN "" ELSE Head(cs) \o Join(Tail(cs))

\* Length of the longest run of characters of class cls that starts at i.
RECURSIVE RunLen(_, _, _)
RunLen(cs, i, cls) ==
  IF i > Len(cs) \/ cs[i] \notin cls THEN 0 ELSE 1 + RunLen(cs, i + 1, cls)

\* Index of the first occurrence of character c at or after i, 0 if none.
RECURSIVE IndexOf(_, _, _)
IndexOf(cs, c, i) ==
  IF i > Len(cs) THEN 0 ELSE IF cs[i] = c THEN i ELSE IndexOf(cs, c, i + 1)

startsWithHttp(cs) == Len(cs) >= 4 /\ SubSeq(cs, 1, 4) = <<"h", "t", "t", "p">>

\* new URL(input).pathname for input of the form scheme://host[/path][?query][#fragment];
\* Null when the constructor throws.
urlPathname(cs) ==
  LET colon == IndexOf(cs, ":", 1)
      hostStart == colon + 3
      hostLen == RunLen(cs, hostStart, AuthorChar)
      pathStart == hostStart + hostLen
      q == IndexOf(cs, "?", pathStart)
      h == IndexOf(cs, "#", pathStart)
      stop == IF q > 0 /\ (h = 0 \/ q < h) THEN q - 1
              ELSE IF h > 0 THEN h - 1
              ELSE Len(cs)
  IN IF colon = 0 \/ Len(cs) < colon + 2
        \/ cs[colon + 1] # "/" \/ cs[colon + 2] # "/" \/ hostLen = 0
        \/ (pathStart <= Len(cs) /\ cs[pathStart] \notin {"/", "?", "#"})
     THEN Null
     ELSE Some(IF stop < pathStart THEN <<"/">> ELSE SubSeq(cs, pathStart, stop))

\* pathname.match(/\/@([a-z0-9._-]+)\/([a-z0-9-]+)/), searching from index i.
RECURSIVE matchAuthorPermlink(_, _)
matchAuthorPermlink(path, i) ==
  LET aLen == RunLen(path, i + 2, AuthorChar)
      slash == i + 2 + aLen
      pLen == RunLen(path, slash + 1, PermlinkChar)
  IN IF i + 1 > Len(path) THEN Null
     ELSE IF path[i] = "/" /\ path[i + 1] = "@" /\ aLen > 0
             /\ slash <= Len(path) /\ path[slash] = "/" /\ pLen > 0
          THEN Some([author |-> Join(SubSeq(path, i + 2, slash - 1)),
                     permlink |-> Join(SubSeq(path, slash + 1, slash + pLen))])
          ELSE matchAuthorPermlink(path, i + 1)

\* A parser that accepts any text with an /@author/permlink part.
parseHiveUrlAnyText(input) == matchAuthorPermlink(input, 1)

parseHiveUrl(input) ==
  IF ~startsWithHttp(input) THEN Null
  ELSE IF urlPathname(input).isNull THEN Null
  ELSE matchAuthorPermlink(urlPathname(input).obj, 1)

\* https://x/c/@bob/p1
GoodUrl == <<"h", "t", "t", "p", "s", ":", "/", "/", "x", "/", "c", "/", "@", "b", "o", "b", "/", "p", "1">>
\* /@bob/p1
NotAUrl == <<"/", "@", "b", "o", "b", "/", "p", "1">>
\* https://x/c/p1
NoAuthorUrl == <<"h", "t", "t", "p", "s", ":", "/", "/", "x", "/", "c", "/", "p", "1">>
\* https://x/@bob/p1_2
UnderscoreUrl == <<"h", "t", "t", "p", "s", ":", "/", "/", "x", "/", "@", "b", "o", "b", "/", "p", "1", "_", "2">>
\* no --url option
NoUrl == <<>>

(***************************************************************************)
(* State                                                                   *)
(***************************************************************************)

VARIABLES
  env,        \* process environment of the invocation (HIVE_* variables)
  file,       \* ~/.hive-cli/config.json
  lastWrite,  \* history: the last operation that changed the file, and its argument
  run,        \* the running command: position, options, built operations, outcome
  net,        \* history: network traffic of the invocation
  wait,       \* waitForTransaction's locals
  chain       \* the remote node: whether and when it reports the transaction

vars == <<env, file, lastWrite, run, net, wait, chain>>

\* A message shown to the user, or carried by a thrown Error.
Msg(text, arg, hint, secs) == [text |-> text, arg |-> arg, hint |-> hint, secs |-> secs]
NoMsg == Msg("", "", "", 0)

NoOpt == [account |-> Undef, wait |-> FALSE]

IdleRun ==
  [pc |-> "idle", cmd |-> "none", opt |-> NoOpt, config |-> Null, client |-> Null,
   account |-> Undef,
   ops |-> <<>>, keyType |-> "posting", result |-> EmptyObj,
   exitCode |-> -1, crashed |-> FALSE, error |-> NoMsg, msg |-> NoMsg, printed |-> FALSE,
   prompted |-> FALSE, isEdit |-> FALSE, node |-> Undef, format |-> "none"]

\* calls: RPC requests sent; broadcasts: calls of client.broadcast;
\* txCreated: transactions created and signed; submitted: the operation
\* lists of the transactions sent to the node.
NoNet == [calls |-> 0, broadcasts |-> 0, txCreated |-> 0, submitted |-> <<>>, replies |-> <<>>]

NoWait == [txId |-> Undef, timeoutMs |-> 0, elapsed |-> 0, polls |-> 0,
           log |-> <<>>, outcome |-> "none", error |-> NoMsg]

NoChain == [confirms |-> FALSE, after |-> 0]

(***************************************************************************)
(* Output helpers (utils.ts)                                               *)
(***************************************************************************)

isJsonMode(e) == e.jsonOutput = "1"

\* run.format is the form of what the run wrote: "json" for JSON.stringify
\* output alone, "text" for console.error / spinner lines, "none" for nothing.
\* createSpinner(...).fail(m) / .succeed(m): a no-op object in JSON mode.
spinnerSay(e, m) == IF isJsonMode(e) THEN NoMsg ELSE m

\* console.error(m); process.exit(1)
ExitError(r, m) == [r EXCEPT !.pc = "done", !.exitCode = 1, !.msg = m, !.format = "text"]

\* spinner.fail(error.message); process.exit(1)
ExitSpinnerFail(r, e, m) ==
  [r EXCEPT !.pc = "done", !.exitCode = 1, !.error = m, !.msg = spinnerSay(e, m),
            !.format = IF isJsonMode(e) THEN "none" ELSE "text"]

\* An exception that escapes the action handler: the promise is rejected
\* with nobody to catch it and node ends the process with status 1 and a
\* stack trace instead of a message of the program.
Unhandled(r) == [r EXCEPT !.pc = "done", !.exitCode = 1, !.crashed = TRUE]

\* spinner.succeed(m); console.log(JSON.stringify(result)); the handler returns.
ExitSuccess(r, e, m) ==
  [r EXCEPT !.pc = "done", !.exitCode = 0, !.msg = spinnerSay(e, m), !.printed = TRUE,
            !.format = IF isJsonMode(e) THEN "json" ELSE "text"]

AccountNotSpecified == Msg("Account not specified", "", "HIVE_ACCOUNT", 0)
ConfigNotFound == Msg("Configuration not found", "", "HIVE_ACCOUNT", 0)

(***************************************************************************)
(* Chain client (hive-client.ts)                                           *)
(***************************************************************************)

\* HiveClient.broadcast, the checks before the transaction is created: the
\* Error it throws, or NoMsg when it goes on.
broadcastCheckNoAccount(c, kt) ==
  LET key == IF kt = "active" THEN Get(c, "activeKey") ELSE Get(c, "postingKey")
      envVar == IF kt = "active" THEN "HIVE_ACTIVE_KEY" ELSE "HIVE_POSTING_KEY"
  IN IF ~Truthy(key)
     THEN Msg("key is not configured", kt, envVar, 0)
     ELSE NoMsg

\* A broadcast that does not look for the key.
broadcastCheckNoKey(c, kt) ==
  IF ~Truthy(Get(c, "account"))
  THEN Msg("Account is not configured", "", "HIVE_ACCOUNT", 0)
  ELSE NoMsg

broadcastCheck(c, kt) ==
  LET key == IF kt = "active" THEN Get(c, "activeKey") ELSE Get(c, "postingKey")
      envVar == IF kt = "active" THEN "HIVE_ACTIVE_KEY" ELSE "HIVE_POSTING_KEY"
  IN IF ~Truthy(key)
     THEN Msg("key is not configured", kt, envVar, 0)
     ELSE IF ~Truthy(Get(c, "account"))
          THEN Msg("Account is not configured", "", "HIVE_ACCOUNT", 0)
          ELSE NoMsg

\* operations.map(op => [op.type, op.value])
txOperationsFirstOnly(operations) ==
  [i \in 1..(IF Len(operations) > 0 THEN 1 ELSE 0) |-> <<operations[i].type, operations[i].value>>]

txOperations(operations) ==
  [i \in 1..Len(operations) |-> <<operations[i].type, operations[i].value>>]

\* result?.result?.tx_id ?? result?.tx_id
txIdOfTopLevelOnly(res) == Get(res, "tx_id")

txIdOf(res) ==
  IF "result" \in DOMAIN res /\ "tx_id" \in DOMAIN res["result"]
  THEN res["result"]["tx_id"]
  ELSE Get(res, "tx_id")

\* client.broadcast(operations, kt) of the client r.client up to the point
\* where the transaction would be created: the run either ends or stands
\* before the network part of the broadcast.
clientBroadcast(r, n, e, operations, kt) ==
  LET built == [r EXCEPT !.ops = operations, !.keyType = kt]
      called == [n EXCEPT !.broadcasts = @ + 1]
      thrown == broadcastCheck(r.client.obj, kt)
  IN IF thrown # NoMsg
     THEN [run |-> ExitSpinnerFail(built, e, thrown), net |-> called]
     ELSE [run |-> [built EXCEPT !.pc = "broadcast"], net |-> called]

DEFAULT_NODE == "https://api.hive.blog"

\* hiveConfig.node as the constructor of HiveClient sets it: every call and
\* broadcast of the client goes there.
hiveConfigNode(c) == IF c.isNull THEN Undef ELSE Or(Get(c.obj, "node"), DEFAULT_NODE)

\* getClient() followed by client.broadcast(operations, kt).
ToBroadcast(r, n, e, f, operations, kt) ==
  LET c == getConfig(e, f)
      built == [r EXCEPT !.ops = operations, !.keyType = kt, !.client = c,
                         !.node = hiveConfigNode(c)]
  IN IF c.isNull
     THEN [run |-> ExitError(built, ConfigNotFound), net |-> n]
     ELSE clientBroadcast(built, n, e, operations, kt)

\* getClient() followed by client.call(...): the run ends, or awaits the
\* node's reply.
ToFetch(r, e, f) ==
  LET c == getConfig(e, f)
  IN IF c.isNull THEN ExitError([r EXCEPT !.client = c], ConfigNotFound)
     ELSE [r EXCEPT !.client = c, !.node = hiveConfigNode(c), !.pc = "fetch"]

(***************************************************************************)
(* Input domains                                                           *)
(***************************************************************************)

EnvAccounts == {Undef, "", "eve"}
EnvPostingKeys == {Undef, "ePK"}
EnvActiveKeys == {Undef, "eAK"}
FlagAccounts == {Undef, "flo"}

Env(a, pk, ak, j) ==
  [account |-> a, postingKey |-> pk, activeKey |-> ak, jsonOutput |-> j, node |-> Undef]

\* Environments of the configuration commands (HIVE_JSON_OUTPUT unset).
ConfigEnvs ==
  {Env(a, pk, ak, Undef) : a \in EnvAccounts, pk \in EnvPostingKeys, ak \in EnvActiveKeys}

\* Commands that are recognised to support --wait in commands/broadcast.ts.
WaitCommands == {"vote", "publish", "reply", "delete-comment", "transfer", "custom-json", "broadcast"}

\* commander's answer to an option the command does not declare:
\* "error: unknown option '--wait'" on stderr and exit status 1, before the
\* action handler runs.
UnknownOption == Msg("error: unknown option", "--wait", "", 0)

RejectWait(r, c, o) ==
  ExitError([r EXCEPT !.cmd = c, !.opt = [o EXCEPT !.wait = TRUE]], UnknownOption)

SuccessText(c) ==
  CASE c = "vote" -> "Vote broadcasted successfully"
    [] c = "reply" -> "Reply broadcasted successfully"
    [] c = "edit" -> "Edit broadcasted successfully"
    [] c = "delete-comment" -> "Comment deleted successfully"
    [] c = "transfer" -> "Transfer broadcasted successfully"
    [] c = "custom-json" -> "Custom JSON broadcasted successfully"
    [] c = "broadcast" -> "Operations broadcasted successfully"
    [] c = "claim" -> "Rewards claimed successfully"
    [] c = "delegate" -> "Delegation broadcasted successfully"
    [] c = "profile update" -> "Profile update broadcasted successfully"
    [] OTHER -> "broadcasted successfully"

\* The text of spinner.succeed
successText(r) ==
  IF r.cmd # "publish" THEN SuccessText(r.cmd)
  ELSE IF r.isEdit THEN "Comment updated successfully" ELSE "Comment created successfully"

(***************************************************************************)
(* Social commands: follow, unfollow, mute, unmute, reblog, community      *)
(* subscribe / unsubscribe                                                 *)
(***************************************************************************)

SocialCommands ==
  {"follow", "unfollow", "mute", "unmute", "reblog", "community subscribe", "community unsubscribe"}

socialOperation(c, account, target) ==
  LET what == CASE c = "follow" -> <<"blog">>
                [] c = "mute" -> <<"ignore">>
                [] OTHER -> <<>>
      json == CASE c \in {"follow", "unfollow", "mute", "unmute"} ->
                     <<"follow", [follower |-> account, following |-> target, what |-> what]>>
                [] c = "reblog" ->
                     <<"reblog", [account |-> account, author |-> target, permlink |-> "p1"]>>
                [] c = "community subscribe" -> <<"subscribe", [community |-> target]>>
                [] OTHER -> <<"unsubscribe", [community |-> target]>>
  IN [type |-> "custom_json",
      value |-> [required_auths |-> <<>>,
                 required_posting_auths |-> <<account>>,
                 id |-> IF c \in {"community subscribe", "community unsubscribe"}
                        THEN "community" ELSE "follow",
                 json |-> json]]

StartSocial(c, flag, w) ==
  /\ run.pc = "idle"
  /\ LET cfg == getConfig(env, file)
         o == [NoOpt EXCEPT !.account = flag]
         account == getAccountName(cfg, o, env)
         r == [run EXCEPT !.cmd = c, !.opt = o, !.config = cfg, !.account = account]
         nx == ToBroadcast(r, net, env, file, <<socialOperation(c, account, "bob")>>, "posting")
     IN IF w THEN run' = RejectWait(run, c, o) /\ net' = net
        ELSE IF ~Truthy(account)
        THEN run' = ExitError(r, AccountNotSpecified) /\ net' = net
        ELSE run' = nx.run /\ net' = nx.net
  /\ UNCHANGED <<env, file, lastWrite, wait, chain>>

(***************************************************************************)
(* Inputs shared by the commands of commands/broadcast.ts                  *)
(***************************************************************************)

\* fs.readFile(path, 'utf8'): the files that exist.
Files == {"body.md", "memo.txt", "payload.json"}
readFile(path) ==
  IF path \in Files THEN [ok |-> TRUE, text |-> "text of " \o path]
  ELSE [ok |-> FALSE, text |-> ""]

\* readContent(source): nothing, the standard input ("-"), or a file.
readContent(source) ==
  CASE ~Truthy(source) -> [ok |-> TRUE, text |-> ""]
    [] source = "-" -> [ok |-> TRUE, text |-> "text of stdin"]
    [] OTHER -> readFile(source)

\* A JavaScript value that is an array (its items) or an object (its
\* properties).
JsArray(items) == [isArray |-> TRUE, items |-> items, value |-> EmptyObj]
JsObject(o) == [isArray |-> FALSE, items |-> <<>>, value |-> o]

\* A JSON text and JSON.parse / JSON.stringify on it.  A text is malformed
\* (Garbage), or denotes an array or an object; NoText is the empty string.
JsonArray(items) == [text |-> "json", isArray |-> TRUE, items |-> items, value |-> EmptyObj]
JsonObject(o) == [text |-> "json", isArray |-> FALSE, items |-> <<>>, value |-> o]
Garbage == [text |-> "garbage", isArray |-> FALSE, items |-> <<>>, value |-> EmptyObj]
NoText == [text |-> "", isArray |-> FALSE, items |-> <<>>, value |-> EmptyObj]
JSONparse(t) ==
  IF t.text # "json" THEN Null
  ELSE Some(IF t.isArray THEN JsArray(t.items) ELSE JsObject(t.value))
JSONstringify(o) == JsonObject(o)

\* parseInt(text): the leading decimal digits, NaN when there are none.
NaN == [nan |-> TRUE, n |-> 0]
Num(k) == [nan |-> FALSE, n |-> k]
DigitValue(c) ==
  CASE c = "0" -> 0 [] c = "1" -> 1 [] c = "2" -> 2 [] c = "3" -> 3 [] c = "4" -> 4
    [] c = "5" -> 5 [] c = "6" -> 6 [] c = "7" -> 7 [] c = "8" -> 8 [] OTHER -> 9
RECURSIVE DigitsValue(_, _)
DigitsValue(cs, len) ==
  IF len = 0 THEN 0 ELSE 10 * DigitsValue(cs, len - 1) + DigitValue(cs[len])
\* A parseInt that reads one digit only.
parseIntOneDigit(cs) ==
  IF Len(cs) > 0 /\ cs[1] \in Digit THEN Num(DigitValue(cs[1])) ELSE NaN

parseInt(cs) ==
  LET neg == Len(cs) > 0 /\ cs[1] = "-"
      body == IF Len(cs) > 0 /\ cs[1] \in {"-", "+"} THEN Tail(cs) ELSE cs
      len == RunLen(body, 1, Digit)
  IN IF len = 0 THEN NaN
     ELSE Num(IF neg THEN 0 - DigitsValue(body, len) ELSE DigitsValue(body, len))
Times(x, k) == IF x.nan THEN NaN ELSE Num(x.n * k)

\* The author and permlink a command acts on: --url, or --author and --permlink.
Targets ==
  {[author |-> "bob", permlink |-> "p1", url |-> NoUrl],
   [author |-> Undef, permlink |-> Undef, url |-> GoodUrl],
   [author |-> Undef, permlink |-> Undef, url |-> NotAUrl],
   [author |-> Undef, permlink |-> Undef, url |-> UnderscoreUrl],
   [author |-> "bob", permlink |-> Undef, url |-> NoUrl]}

\* The resolution of --url / --author / --permlink shared by vote and
\* delete-comment: the error text, or the pair.
resolveTarget(o) ==
  LET parsed == parseHiveUrl(o.url)
      a == IF o.url # NoUrl THEN OptGet(parsed, "author") ELSE o.author
      p == IF o.url # NoUrl THEN OptGet(parsed, "permlink") ELSE o.permlink
  IN IF o.url # NoUrl /\ parsed.isNull
     THEN [err |-> "Could not parse --url", author |-> Undef, permlink |-> Undef]
     ELSE IF ~Truthy(a) \/ ~Truthy(p)
          THEN [err |-> "Provide either --url or both --author and --permlink",
                author |-> a, permlink |-> p]
          ELSE [err |-> "", author |-> a, permlink |-> p]

\* const config = await getConfig(); const account = getAccountName(config, options)
Begin(c, o) ==
  [run EXCEPT !.cmd = c, !.opt = o, !.config = getConfig(env, file),
              !.account = getAccountName(getConfig(env, file), o, env)]

\* The handler goes to the broadcast, or ends.
GoBroadcast(r, n, operations, kt) ==
  LET nx == ToBroadcast(r, n, env, file, operations, kt)
  IN run' = nx.run /\ net' = nx.net

Stop(r) == run' = r /\ net' = net

(***************************************************************************)
(* vote                                                                    *)
(***************************************************************************)

WeightInputs == {<<"5", "0">>}

StartVote(flag, target, weight, w) ==
  /\ run.pc = "idle"
  /\ LET o == [account |-> flag, wait |-> w, author |-> target.author,
               permlink |-> target.permlink, url |-> target.url, weight |-> weight]
         r == Begin("vote", o)
         t == resolveTarget(o)
         op == [type |-> "vote",
                value |-> [voter |-> r.account, author |-> t.author, permlink |-> t.permlink,
                           weight |-> Times(parseInt(o.weight), 100)]]
     IN IF ~Truthy(r.account) THEN Stop(ExitError(r, AccountNotSpecified))
        ELSE IF t.err # "" THEN Stop(ExitError(r, Msg(t.err, "", "", 0)))
        ELSE GoBroadcast(r, net, <<op>>, "posting")
  /\ UNCHANGED <<env, file, lastWrite, wait, chain>>

(***************************************************************************)
(* delete-comment                                                          *)
(***************************************************************************)

StartDeleteComment(target, w) ==
  /\ run.pc = "idle"
  /\ LET o == [account |-> Undef, wait |-> w, author |-> target.author,
               permlink |-> target.permlink, url |-> target.url]
         r == [run EXCEPT !.cmd = "delete-comment", !.opt = o]
         t == resolveTarget(o)
         op == [type |-> "delete_comment",
                value |-> [author |-> t.author, permlink |-> t.permlink]]
     IN IF t.err # "" THEN Stop(ExitError(r, Msg(t.err, "", "", 0)))
        ELSE GoBroadcast(r, net, <<op>>, "posting")
  /\ UNCHANGED <<env, file, lastWrite, wait, chain>>

(***************************************************************************)
(* reply                                                                   *)
(***************************************************************************)

BodyInputs ==
  {[body |-> "hello", bodyFile |-> Undef],
   [body |-> Undef, bodyFile |-> Undef],
   [body |-> Undef, bodyFile |-> "missing.md"],
   [body |-> Undef, bodyFile |-> "body.md"]}

\* comment_options as built by reply --decline-rewards
declineOptions(author, permlink) ==
  [type |-> "comment_options",
   value |-> [author |-> author, permlink |-> permlink,
              max_accepted_payout |-> "0.000 HBD", percent_hbd |-> 10000,
              allow_votes |-> TRUE, allow_curation_rewards |-> TRUE,
              extensions |-> <<>>]]

StartReply(flag, b, decline, w) ==
  /\ run.pc = "idle"
  /\ LET o == [account |-> flag, wait |-> w, body |-> b.body, bodyFile |-> b.bodyFile,
               declineRewards |-> decline]
         r == Begin("reply", o)
         read == readFile(o.bodyFile)
         body == IF Truthy(o.bodyFile) THEN read.text ELSE o.body
         permlink == "re-" \o "bob" \o "-" \o "1700000000000"
         comment == [type |-> "comment",
                     value |-> [parent_author |-> "bob", parent_permlink |-> "p1",
                                author |-> r.account, permlink |-> permlink,
                                title |-> "", body |-> body, json_metadata |-> NoText]]
         operations == IF decline THEN <<comment, declineOptions(r.account, permlink)>>
                       ELSE <<comment>>
     IN IF ~Truthy(r.account) THEN Stop(ExitError(r, AccountNotSpecified))
        ELSE IF Truthy(o.bodyFile) /\ ~read.ok
             THEN Stop(ExitError(r, Msg("Failed to read body file", o.bodyFile, "", 0)))
        ELSE IF ~Truthy(body)
             THEN Stop(ExitError(r, Msg("Body is required. Use --body or --body-file.", "", "", 0)))
        ELSE GoBroadcast(r, net, operations, "posting")
  /\ UNCHANGED <<env, file, lastWrite, wait, chain>>

(***************************************************************************)
(* transfer                                                                *)
(***************************************************************************)

MemoInputs ==
  {[memo |-> "", memoFile |-> Undef],
   [memo |-> "hi", memoFile |-> Undef],
   [memo |-> "", memoFile |-> "missing.txt"]}

Cancelled == Msg("Cancelled", "", "", 0)

\* console.log('Cancelled'); process.exit(0)
ExitCancelled(r) ==
  [r EXCEPT !.pc = "done", !.exitCode = 0, !.msg = Cancelled, !.format = "text"]

StartTransfer(flag, m, proceed, w) ==
  /\ run.pc = "idle"
  /\ LET o == [account |-> flag, wait |-> w, to |-> "bob", amount |-> "1.000 HIVE",
               memo |-> m.memo, memoFile |-> m.memoFile, proceed |-> proceed]
         r == Begin("transfer", o)
         asked == ~Truthy(OptGet(r.config, "activeKey"))
         read == readContent(o.memoFile)
         memo == IF Truthy(o.memoFile) THEN read.text
                 ELSE IF Truthy(o.memo) THEN o.memo ELSE ""
         op == [type |-> "transfer",
                value |-> [from |-> r.account, to |-> o.to, amount |-> o.amount, memo |-> memo]]
     IN /\ asked \/ proceed
        /\ IF ~Truthy(r.account) THEN Stop(ExitError(r, AccountNotSpecified))
           ELSE IF asked /\ ~proceed THEN Stop(ExitCancelled([r EXCEPT !.prompted = TRUE]))
           ELSE IF ~read.ok
                THEN Stop(ExitError([r EXCEPT !.prompted = asked],
                                    Msg("Error reading memo", o.memoFile, "", 0)))
           ELSE GoBroadcast([r EXCEPT !.prompted = asked], net, <<op>>, "active")
  /\ UNCHANGED <<env, file, lastWrite, wait, chain>>

(***************************************************************************)
(* custom-json                                                             *)
(***************************************************************************)

JsonSources ==
  {[json |-> "{\"a\":1}", jsonFile |-> Undef],
   [json |-> "{bad", jsonFile |-> Undef],
   [json |-> Undef, jsonFile |-> Undef],
   [json |-> Undef, jsonFile |-> "missing.json"]}

\* list.split(',').map(a => a.trim()) of an option given as its items
AuthLists == {<<>>, <<"flo">>}

StartCustomJson(flag, src, active, w) ==
  /\ run.pc = "idle"
  /\ LET o == [account |-> flag, wait |-> w, id |-> "app", json |-> src.json,
               jsonFile |-> src.jsonFile, requiredPosting |-> <<>>, requiredActive |-> active]
         r == Begin("custom-json", o)
         read == readContent(o.jsonFile)
         json == IF Truthy(o.jsonFile) THEN read.text ELSE o.json
         requiredPostingAuths == IF o.requiredPosting # <<>> THEN o.requiredPosting
                                 ELSE <<r.account>>
         requiredAuths == o.requiredActive
         op == [type |-> "custom_json",
                value |-> [required_auths |-> requiredAuths,
                           required_posting_auths |-> requiredPostingAuths,
                           id |-> o.id, json |-> json]]
         kt == IF Len(requiredAuths) > 0 THEN "active" ELSE "posting"
     IN IF ~Truthy(r.account) THEN Stop(ExitError(r, AccountNotSpecified))
        ELSE IF Truthy(o.jsonFile) /\ ~read.ok
             THEN Stop(ExitError(r, Msg("Error reading JSON", o.jsonFile, "", 0)))
        ELSE IF ~Truthy(o.jsonFile) /\ ~Truthy(o.json)
             THEN Stop(ExitError(r, Msg("Either --json or --json-file is required", "", "", 0)))
        ELSE GoBroadcast(r, net, <<op>>, kt)
  /\ UNCHANGED <<env, file, lastWrite, wait, chain>>

(***************************************************************************)
(* broadcast <operations>                                                  *)
(***************************************************************************)

RawOperations ==
  {JsonArray(<<[type |-> "vote",
                value |-> [voter |-> "fay", author |-> "bob", permlink |-> "p1",
                           weight |-> Num(100)]],
               [type |-> "custom_json",
                value |-> [required_auths |-> <<>>, required_posting_auths |-> <<"fay">>,
                           id |-> "app", json |-> "{}"]]>>),
   JsonObject([type |-> "vote"]),
   Garbage}

StartBroadcast(text, kt, w) ==
  /\ run.pc = "idle"
  /\ LET o == [account |-> Undef, wait |-> w, operations |-> text, keyType |-> kt]
         r == [run EXCEPT !.cmd = "broadcast", !.opt = o]
         parsed == JSONparse(text)
         isList == parsed.obj.isArray
         nx == ToBroadcast(r, net, env, file, IF isList THEN parsed.obj.items ELSE <<>>, kt)
     IN IF parsed.isNull THEN Stop(Unhandled(r))
        ELSE IF nx.run.pc = "broadcast" /\ ~isList
             \* operations.map is not a function
             THEN run' = ExitSpinnerFail(nx.run, env,
                                         Msg("operations.map is not a function", "", "", 0))
                  /\ net' = nx.net
        ELSE run' = nx.run /\ net' = nx.net
  /\ UNCHANGED <<env, file, lastWrite, wait, chain>>

(***************************************************************************)
(* Values of the node's answers and the helpers of utils.ts that read them *)
(***************************************************************************)

\* unwrapResult(response), for a response that is null, { result: r } or r.
\* client.call(...) was made and the node answered it with reply.
received(n, reply) == [n EXCEPT !.calls = @ + 1, !.replies = Append(@, reply)]

unwrapResult(response) ==
  IF response.isNull THEN Null
  ELSE IF "result" \in DOMAIN response.obj THEN response.obj.result
  ELSE response

\* A parseMetadata that keeps the tags only.
parseMetadataTagsOnly(o, k) ==
  IF k \notin DOMAIN o THEN EmptyObj
  ELSE IF o[k].text = "json" /\ ~o[k].isArray
       THEN [x \in DOMAIN o[k].value \cap {"tags"} |-> o[k].value[x]]
  ELSE EmptyObj

\* parseMetadata(raw) of a missing value or of a JSON text
parseMetadata(o, k) ==
  IF k \notin DOMAIN o THEN EmptyObj
  ELSE IF o[k].text = "json" /\ ~o[k].isArray THEN o[k].value
  ELSE EmptyObj

\* tag.trim()
trim(t) ==
  CASE t = " b " -> "b"
    [] t = " " -> ""
    [] OTHER -> t

\* parseTags(tags), the option given as the items between its commas (no
\* item at all for the empty string)
parseTags(tags) == SelectSeq([i \in 1..Len(tags) |-> trim(tags[i])], LAMBDA t : t # "")

\* parseFloat(text): the leading decimal number in millionths (further
\* digits dropped), NaN when the text does not start with one.
Pad6(cs, len) ==
  DigitsValue([i \in 1..6 |-> IF i <= len THEN cs[i] ELSE "0"], 6)
parseFloat(cs) ==
  LET whole == RunLen(cs, 1, Digit)
      dotted == Len(cs) > whole /\ cs[whole + 1] = "."
      rest == IF dotted THEN SubSeq(cs, whole + 2, Len(cs)) ELSE <<>>
      frac == RunLen(rest, 1, Digit)
  IN IF whole = 0 /\ frac = 0 THEN NaN
     ELSE Num(DigitsValue(cs, whole) * 1000000 + Pad6(rest, IF frac > 6 THEN 6 ELSE frac))

\* An asset "1.000 HIVE" as the parts of amount.split(' ').
Asset(digits, unit) == <<digits, unit>>
ZeroHive == Asset(<<"0", ".", "0", "0", "0">>, "HIVE")
ZeroHbd == Asset(<<"0", ".", "0", "0", "0">>, "HBD")
ZeroVests == Asset(<<"0", ".", "0", "0", "0", "0", "0", "0">>, "VESTS")

\* parseAssetAmount(o.k) of a missing value or an asset text, in millionths
parseAssetAmount(o, k) ==
  IF k \notin DOMAIN o THEN 0
  ELSE IF parseFloat(o[k][1]).nan THEN 0 ELSE parseFloat(o[k][1]).n

RECURSIVE Gcd(_, _)
Gcd(a, b) == IF b = 0 THEN a ELSE Gcd(b, a % b)

\* (a * b) / c rounded to the nearest whole number, the common factors
\* taken out before multiplying
MulDiv(a, b, c) ==
  LET g == Gcd(b, c)
      h == Gcd(a, c \div g)
      num == (a \div h) * (b \div g)
      den == (c \div g) \div h
  IN (2 * num + den) \div (2 * den)

\* A hpToVests that divides the wrong way round.
hpToVestsInverted(hp, props) ==
  LET totalVestingFundHive == parseAssetAmount(props, "total_vesting_fund_hive")
      totalVestingShares == parseAssetAmount(props, "total_vesting_shares")
  IN IF totalVestingFundHive = 0 \/ totalVestingShares = 0
     THEN [millionths |-> 0, unit |-> "VESTS"]
     ELSE [millionths |-> MulDiv(hp, totalVestingFundHive, totalVestingShares), unit |-> "VESTS"]

\* hpToVests(hp, props): the amount of `${vests.toFixed(6)} VESTS` in
\* millionths, hp and the two totals being in millionths too
hpToVests(hp, props) ==
  LET totalVestingFundHive == parseAssetAmount(props, "total_vesting_fund_hive")
      totalVestingShares == parseAssetAmount(props, "total_vesting_shares")
  IN IF totalVestingFundHive = 0 \/ totalVestingShares = 0
     THEN [millionths |-> 0, unit |-> "VESTS"]
     ELSE [millionths |-> MulDiv(hp, totalVestingShares, totalVestingFundHive), unit |-> "VESTS"]

\* The node's reply to client.call: the call throws, or returns null, the
\* full object in a { result } envelope, or a sparse object without one.
FetchReplies == {"throws", "null", "full", "sparse"}

\* get_accounts may also answer with an account holding dust only.
ClaimReplies == FetchReplies \cup {"dust"}

FullPost ==
  [author |-> "fay", permlink |-> "p1", parent_author |-> "", parent_permlink |-> "hive-1",
   title |-> "Old title", json_metadata |-> JsonObject([tags |-> <<"old">>, app |-> "x"])]
SparsePost == [author |-> "amy", permlink |-> "p9", json_metadata |-> NoText]

FullAccount ==
  [name |-> "fay",
   reward_hive_balance |-> Asset(<<"1", ".", "5", "0", "0">>, "HIVE"),
   reward_hbd_balance |-> ZeroHbd,
   reward_vesting_balance |-> Asset(<<"2", ".", "0", "0", "0", "0", "0", "0">>, "VESTS"),
   posting_json_metadata |-> JsonObject([profile |-> [name |-> "Old", location |-> "Oslo"],
                                         version |-> "2"])]
SparseAccount ==
  [name |-> "fay", reward_hive_balance |-> ZeroHive, posting_json_metadata |-> Garbage]
DustAccount ==
  [name |-> "fay", reward_hive_balance |-> ZeroHive, reward_hbd_balance |-> ZeroHbd,
   reward_vesting_balance |-> Asset(<<"0", ".", "0", "0", "0", "0", "0", "1">>, "VESTS")]

FullProps ==
  [total_vesting_fund_hive |-> Asset(<<"2", "0", "0", ".", "0", "0", "0">>, "HIVE"),
   total_vesting_shares |-> Asset(<<"4", "0", "0", ".", "0", "0", "0", "0", "0", "0">>, "VESTS")]
SparseProps == [head_block_number |-> 1]

responseOf(reply, full, sparse) ==
  CASE reply = "null" -> Null
    [] reply = "full" -> Some([id |-> 1, result |-> Some(full)])
    [] OTHER -> Some(sparse)

(***************************************************************************)
(* publish                                                                 *)
(***************************************************************************)

DefaultMetadata == JsonObject(EmptyObj)

BasePublish ==
  [permlink |-> "p1", title |-> "", body |-> "hello", bodyFile |-> Undef,
   parentAuthor |-> "", parentPermlink |-> "", parentUrl |-> NoUrl, community |-> Undef,
   tags |-> <<>>, metadata |-> DefaultMetadata, declineRewards |-> FALSE,
   maxPayout |-> Undef, beneficiaries |-> NoText, burnRewards |-> FALSE]

Beneficiaries == JsonArray(<<[account |-> "bob", weight |-> 1000]>>)

OverBeneficiaries ==
  JsonArray(<<[account |-> "amy", weight |-> 6000], [account |-> "bob", weight |-> 5000]>>)

PublishInputs ==
  {BasePublish,
   [BasePublish EXCEPT !.body = Undef],
   [BasePublish EXCEPT !.body = Undef, !.bodyFile = "missing.md"],
   [BasePublish EXCEPT !.body = Undef, !.bodyFile = "-"],
   [BasePublish EXCEPT !.parentUrl = GoodUrl],
   [BasePublish EXCEPT !.parentUrl = NoAuthorUrl],
   [BasePublish EXCEPT !.parentAuthor = "amy", !.parentPermlink = "p0"],
   [BasePublish EXCEPT !.community = "hive-1", !.title = "T", !.tags = <<"a", " b ", " ">>],
   [BasePublish EXCEPT !.metadata = Garbage],
   [BasePublish EXCEPT !.metadata = JsonObject([app |-> "x"])],
   [BasePublish EXCEPT !.declineRewards = TRUE],
   [BasePublish EXCEPT !.maxPayout = "100.000 HBD", !.declineRewards = TRUE],
   [BasePublish EXCEPT !.maxPayout = "50.000 HBD"],
   [BasePublish EXCEPT !.beneficiaries = Beneficiaries],
   [BasePublish EXCEPT !.beneficiaries = Garbage],
   [BasePublish EXCEPT !.beneficiaries = JsonObject([account |-> "bob", weight |-> 1000])],
   [BasePublish EXCEPT !.beneficiaries = OverBeneficiaries],
   [BasePublish EXCEPT !.burnRewards = TRUE],
   [BasePublish EXCEPT !.burnRewards = TRUE, !.beneficiaries = Beneficiaries],
   [BasePublish EXCEPT !.burnRewards = TRUE, !.beneficiaries = Garbage]}

\* A wantsCommentOptions that forgets --burn-rewards.
wantsCommentOptionsNoBurn(o) ==
  o.declineRewards \/ Truthy(o.maxPayout) \/ o.beneficiaries.text # ""

wantsCommentOptions(o) ==
  o.declineRewards \/ Truthy(o.maxPayout) \/ o.beneficiaries.text # "" \/ o.burnRewards

\* Extensions that parse --beneficiaries before looking at --burn-rewards.
publishExtensionsParseFirst(o) ==
  LET parsed == JSONparse(o.beneficiaries)
  IN IF o.beneficiaries.text # "" /\ parsed.isNull THEN [err |-> "Unexpected token", ext |-> <<>>]
     ELSE IF o.beneficiaries.text # "" /\ ~parsed.obj.isArray
          THEN [err |-> "Beneficiaries must be an array", ext |-> <<>>]
     ELSE IF o.burnRewards
          THEN [err |-> "", ext |-> <<<<0, [beneficiaries |-> <<[account |-> "null", weight |-> 10000]>>]>>>>]
     ELSE IF o.beneficiaries.text = "" THEN [err |-> "", ext |-> <<>>]
     ELSE [err |-> "", ext |-> <<<<0, [beneficiaries |-> parsed.obj.items]>>>>]

\* The extensions of comment_options, or the error of the beneficiaries.
publishExtensions(o) ==
  LET parsed == JSONparse(o.beneficiaries)
  IN IF o.burnRewards
     THEN [err |-> "", ext |-> <<<<0, [beneficiaries |-> <<[account |-> "null", weight |-> 10000]>>]>>>>]
     ELSE IF o.beneficiaries.text = "" THEN [err |-> "", ext |-> <<>>]
     ELSE IF parsed.isNull THEN [err |-> "Unexpected token", ext |-> <<>>]
     ELSE IF ~parsed.obj.isArray THEN [err |-> "Beneficiaries must be an array", ext |-> <<>>]
     ELSE [err |-> "", ext |-> <<<<0, [beneficiaries |-> parsed.obj.items]>>>>]

StartPublish(flag, input, w) ==
  /\ run.pc = "idle"
  /\ LET o == [k \in DOMAIN input \cup {"account", "wait"} |->
                 IF k = "account" THEN flag ELSE IF k = "wait" THEN w ELSE input[k]]
         r == Begin("publish", o)
         author == r.account
         parsedUrl == parseHiveUrl(o.parentUrl)
         parentAuthor == IF o.parentUrl # NoUrl THEN OptGet(parsedUrl, "author") ELSE o.parentAuthor
         parentPermlink == IF o.parentUrl # NoUrl THEN OptGet(parsedUrl, "permlink")
                           ELSE o.parentPermlink
         read == readContent(o.bodyFile)
         body == IF Truthy(o.bodyFile) THEN read.text ELSE o.body
         parsedMetadata == JSONparse(o.metadata)
         userMetadata == IF o.metadata # DefaultMetadata THEN parsedMetadata.obj.value ELSE EmptyObj
         metadata == IF o.tags # <<>> THEN Spread(userMetadata, [tags |-> parseTags(o.tags)])
                     ELSE userMetadata
         jsonMetadata == IF DOMAIN metadata # {} THEN JSONstringify(metadata) ELSE NoText
         comment == [type |-> "comment",
                     value |-> [parent_author |-> Or(parentAuthor, ""),
                                parent_permlink |-> Or(o.community, Or(parentPermlink, o.permlink)),
                                author |-> author, permlink |-> o.permlink, title |-> o.title,
                                body |-> body, json_metadata |-> jsonMetadata]]
         x == publishExtensions(o)
         maxAcceptedPayout == Or(o.maxPayout, IF o.declineRewards THEN "0.000 HBD"
                                              ELSE "1000000.000 HBD")
         options == [type |-> "comment_options",
                     value |-> [author |-> author, permlink |-> o.permlink,
                                max_accepted_payout |-> maxAcceptedPayout, percent_hbd |-> 10000,
                                allow_votes |-> TRUE, allow_curation_rewards |-> TRUE,
                                extensions |-> x.ext]]
         operations == IF wantsCommentOptions(o) THEN <<comment, options>> ELSE <<comment>>
     IN IF ~Truthy(author) THEN Stop(ExitError(r, AccountNotSpecified))
        ELSE IF o.parentUrl # NoUrl /\ parsedUrl.isNull
             THEN Stop(ExitError(r, Msg("Could not parse --parent-url", "", "", 0)))
        ELSE IF Truthy(o.bodyFile) /\ ~read.ok
             THEN Stop(ExitError(r, Msg("Failed to read body file", o.bodyFile, "", 0)))
        ELSE IF ~Truthy(body)
             THEN Stop(ExitError(r, Msg("Body is required. Use --body or --body-file.", "", "", 0)))
        ELSE IF o.metadata # DefaultMetadata /\ parsedMetadata.isNull
             THEN Stop(ExitError(r, Msg("Invalid JSON in metadata option", "", "", 0)))
        ELSE IF wantsCommentOptions(o) /\ x.err # ""
             THEN Stop(ExitError(r, Msg("Invalid JSON in beneficiaries option", x.err, "", 0)))
        ELSE Stop(ToFetch([r EXCEPT !.ops = operations], env, file))
  /\ UNCHANGED <<env, file, lastWrite, wait, chain>>

\* A publish for which a failed lookup is fatal.
PublishFetchedStrict(reply) ==
  LET existing == responseOf(reply, FullPost, SparsePost)
      hasResult == ~existing.isNull /\ "result" \in DOMAIN existing.obj
      existsResult == IF hasResult THEN existing.obj.result ELSE existing
      isEdit == /\ OptGet(existsResult, "author") = run.account
                /\ OptGet(existsResult, "permlink") = run.opt.permlink
      nx == clientBroadcast([run EXCEPT !.isEdit = isEdit],
                            received(net, reply), env, run.ops, "posting")
  IN IF reply = "throws"
     THEN /\ run' = ExitSpinnerFail(run, env, Msg("request failed", "", "", 0))
          /\ net' = received(net, reply)
     ELSE run' = nx.run /\ net' = nx.net

\* The reply to bridge.get_post: whatever it is, the broadcast follows.
PublishFetched(reply) ==
  LET existing == responseOf(reply, FullPost, SparsePost)
      hasResult == ~existing.isNull /\ "result" \in DOMAIN existing.obj
      existsResult == IF hasResult THEN existing.obj.result ELSE existing
      isEdit == /\ reply # "throws"
                /\ OptGet(existsResult, "author") = run.account
                /\ OptGet(existsResult, "permlink") = run.opt.permlink
      nx == clientBroadcast([run EXCEPT !.isEdit = isEdit],
                            received(net, reply), env, run.ops, "posting")
  IN run' = nx.run /\ net' = nx.net

(***************************************************************************)
(* edit                                                                    *)
(***************************************************************************)

EditInputs ==
  {[body |-> "hello", bodyFile |-> Undef, title |-> Undef, tags |-> <<>>],
   [body |-> Undef, bodyFile |-> Undef, title |-> Undef, tags |-> <<>>],
   [body |-> Undef, bodyFile |-> "missing.md", title |-> Undef, tags |-> <<>>],
   [body |-> Undef, bodyFile |-> "body.md", title |-> "New", tags |-> <<"a", " b ">>]}

StartEdit(flag, input, w) ==
  /\ run.pc = "idle"
  /\ LET o == [account |-> flag, wait |-> FALSE, author |-> "fay", permlink |-> "p1",
               body |-> input.body, bodyFile |-> input.bodyFile, title |-> input.title,
               tags |-> input.tags]
         r == Begin("edit", o)
         read == readFile(o.bodyFile)
         body == IF Truthy(o.bodyFile) THEN read.text ELSE o.body
     IN IF w THEN Stop(RejectWait(run, "edit", o))
        ELSE IF ~Truthy(r.account) THEN Stop(ExitError(r, AccountNotSpecified))
        ELSE IF Truthy(o.bodyFile) /\ ~read.ok
             THEN Stop(ExitError(r, Msg("Failed to read body file", o.bodyFile, "", 0)))
        ELSE IF ~Truthy(body)
             THEN Stop(ExitError(r, Msg("Body is required. Use --body or --body-file.", "", "", 0)))
        ELSE Stop(ToFetch(r, env, file))
  /\ UNCHANGED <<env, file, lastWrite, wait, chain>>

EditFetched(reply) ==
  LET o == run.opt
      fetched == unwrapResult(responseOf(reply, FullPost, SparsePost))
      post == IF fetched.isNull THEN EmptyObj ELSE fetched.obj
      existingMetadata == parseMetadata(post, "json_metadata")
      existingTags == IF "tags" \in DOMAIN existingMetadata THEN existingMetadata.tags
                      ELSE IF "tags" \in DOMAIN post THEN post.tags ELSE <<>>
      updatedMetadata == IF o.tags # <<>> THEN Spread(existingMetadata, [tags |-> parseTags(o.tags)])
                         ELSE IF Len(existingTags) > 0
                              THEN Spread(existingMetadata, [tags |-> existingTags])
                              ELSE existingMetadata
      jsonMetadata == IF DOMAIN updatedMetadata # {} THEN JSONstringify(updatedMetadata) ELSE NoText
      body == IF Truthy(o.bodyFile) THEN readFile(o.bodyFile).text ELSE o.body
      op == [type |-> "comment",
             value |-> [parent_author |-> Or(Get(post, "parent_author"), ""),
                        parent_permlink |-> Or(Get(post, "parent_permlink"), ""),
                        author |-> o.author, permlink |-> o.permlink,
                        title |-> Or(o.title, Or(Get(post, "title"), "")),
                        body |-> body, json_metadata |-> jsonMetadata]]
      called == received(net, reply)
  IN IF reply = "throws"
     THEN run' = ExitSpinnerFail(run, env, Msg("request failed", "", "", 0)) /\ net' = called
     ELSE IF fetched.isNull
          \* post.parent_author of a null post: a TypeError outside every try
          THEN run' = Unhandled(run) /\ net' = called
          ELSE GoBroadcast(run, called, <<op>>, "posting")

(***************************************************************************)
(* claim                                                                   *)
(***************************************************************************)

NoRewards == Msg("No pending rewards to claim.", "", "", 0)

StartClaim(flag, w) ==
  /\ run.pc = "idle"
  /\ LET r == Begin("claim", [NoOpt EXCEPT !.account = flag])
     IN IF w THEN Stop(RejectWait(run, "claim", [NoOpt EXCEPT !.account = flag]))
        ELSE IF ~Truthy(r.account) THEN Stop(ExitError(r, AccountNotSpecified))
        ELSE Stop(ToFetch(r, env, file))
  /\ UNCHANGED <<env, file, lastWrite, wait, chain>>

\* accounts = unwrapResult(response); accountInfo = accounts[0], or
\* undefined when accounts is no array
accountInfoOf(reply) ==
  LET accounts == unwrapResult(responseOf(reply, JsArray(<<FullAccount>>),
                                          JsArray(<<IF reply = "dust" THEN DustAccount
                                                    ELSE SparseAccount>>)))
  IN IF accounts.isNull \/ ~accounts.obj.isArray THEN EmptyObj ELSE accounts.obj.items[1]

\* A hasRewards that takes a zero balance for a reward.
hasRewardsNonNegative(rewardHive, rewardHbd, rewardVests) ==
  LET rewards == [hive |-> rewardHive, hbd |-> rewardHbd, vests |-> rewardVests]
  IN \/ parseAssetAmount(rewards, "hive") >= 0
     \/ parseAssetAmount(rewards, "hbd") >= 0
     \/ parseAssetAmount(rewards, "vests") >= 0

hasRewards(rewardHive, rewardHbd, rewardVests) ==
  LET rewards == [hive |-> rewardHive, hbd |-> rewardHbd, vests |-> rewardVests]
  IN \/ parseAssetAmount(rewards, "hive") > 0
     \/ parseAssetAmount(rewards, "hbd") > 0
     \/ parseAssetAmount(rewards, "vests") > 0

ClaimFetched(reply) ==
  LET accountInfo == accountInfoOf(reply)
      rewardHive == IF "reward_hive_balance" \in DOMAIN accountInfo
                    THEN accountInfo.reward_hive_balance ELSE ZeroHive
      rewardHbd == IF "reward_hbd_balance" \in DOMAIN accountInfo
                   THEN accountInfo.reward_hbd_balance ELSE ZeroHbd
      rewardVests == IF "reward_vesting_balance" \in DOMAIN accountInfo
                     THEN accountInfo.reward_vesting_balance ELSE ZeroVests
      op == [type |-> "claim_reward_balance",
             value |-> [account |-> run.account, reward_hive |-> rewardHive,
                        reward_hbd |-> rewardHbd, reward_vesting |-> rewardVests]]
      called == received(net, reply)
  IN IF reply = "throws"
     THEN run' = ExitSpinnerFail(run, env, Msg("request failed", "", "", 0)) /\ net' = called
     ELSE IF ~hasRewards(rewardHive, rewardHbd, rewardVests)
          THEN run' = [run EXCEPT !.pc = "done", !.exitCode = 0, !.msg = NoRewards,
                                  !.format = IF isJsonMode(env) THEN "json" ELSE "text"]
               /\ net' = called
          ELSE GoBroadcast(run, called, <<op>>, "posting")

(***************************************************************************)
(* delegate                                                                *)
(***************************************************************************)

\* The <amount> argument as amount.split(' ')
DelegateAmounts ==
  {<<<<"1", "0", "0">>, "HP">>, <<<<"0", ".", "5">>, "hp">>, <<<<"5">>, "HIVE">>, <<<<"x">>, "HP">>}

toUpperCase(u) ==
  CASE u = "hp" -> "HP"
    [] u = "hive" -> "HIVE"
    [] OTHER -> u

AmountMustBeHp == Msg("Amount must be in HP, e.g., \"100 HP\".", "", "", 0)

StartDelegate(flag, amountParts, proceed, w) ==
  /\ run.pc = "idle"
  /\ LET o == [account |-> flag, wait |-> FALSE, to |-> "bob", amount |-> amountParts,
               proceed |-> proceed]
         r == Begin("delegate", o)
         asked == ~Truthy(OptGet(r.config, "activeKey"))
         hpAmount == parseFloat(amountParts[1])
         unit == toUpperCase(amountParts[2])
     IN /\ asked \/ proceed
        /\ IF w THEN Stop(RejectWait(run, "delegate", o))
           ELSE IF ~Truthy(r.account) THEN Stop(ExitError(r, AccountNotSpecified))
           ELSE IF asked /\ ~proceed THEN Stop(ExitCancelled([r EXCEPT !.prompted = TRUE]))
           ELSE IF hpAmount.nan \/ unit # "HP"
                THEN Stop(ExitError([r EXCEPT !.prompted = asked], AmountMustBeHp))
           ELSE Stop(ToFetch([r EXCEPT !.prompted = asked], env, file))
  /\ UNCHANGED <<env, file, lastWrite, wait, chain>>

DelegateFetched(reply) ==
  LET props == unwrapResult(responseOf(reply, FullProps, SparseProps))
      hpAmount == parseFloat(run.opt.amount[1])
      op == [type |-> "delegate_vesting_shares",
             value |-> [delegator |-> run.account, delegatee |-> run.opt.to,
                        vesting_shares |-> hpToVests(hpAmount.n, props.obj)]]
      called == received(net, reply)
  IN IF reply = "throws"
     THEN run' = ExitSpinnerFail(run, env, Msg("request failed", "", "", 0)) /\ net' = called
     ELSE IF props.isNull
          \* props.total_vesting_fund_hive of null props: a TypeError outside every try
          THEN run' = Unhandled(run) /\ net' = called
          ELSE GoBroadcast(run, called, <<op>>, "active")

(***************************************************************************)
(* profile update                                                          *)
(***************************************************************************)

ProfileOptions == {"name", "about", "profileImage", "coverImage", "website", "location"}

NoProfileInput == [k \in ProfileOptions |-> Undef]

ProfileInputs ==
  {NoProfileInput,
   [NoProfileInput EXCEPT !.name = "Fay"],
   [NoProfileInput EXCEPT !.name = "Fay", !.about = "hi"],
   [NoProfileInput EXCEPT !.location = "Rome", !.profileImage = "http://i", !.website = ""]}

\* The key of the profile object an option is written to
profileKey(option) ==
  CASE option = "profileImage" -> "profile_image"
    [] option = "coverImage" -> "cover_image"
    [] OTHER -> option

NoProfileFields == Msg("No profile fields provided.", "", "", 0)

\* Updates that take the name only.
profileUpdatesNameOnly(o) ==
  [k \in {x \in {"name"} : Truthy(o[x])} |-> o[k]]

profileUpdates(o) ==
  [k \in {profileKey(x) : x \in {y \in ProfileOptions : Truthy(o[y])}} |->
     o[CHOOSE x \in ProfileOptions : profileKey(x) = k]]

StartProfileUpdate(flag, input, proceed, w) ==
  /\ run.pc = "idle"
  /\ LET o == [k \in ProfileOptions \cup {"account", "wait", "proceed"} |->
                 CASE k = "account" -> flag
                   [] k = "wait" -> FALSE
                   [] k = "proceed" -> proceed
                   [] OTHER -> input[k]]
         r == Begin("profile update", o)
         asked == ~Truthy(OptGet(r.config, "activeKey"))
     IN /\ asked \/ proceed
        /\ IF w THEN Stop(RejectWait(run, "profile update", o))
           ELSE IF ~Truthy(r.account) THEN Stop(ExitError(r, AccountNotSpecified))
           ELSE IF asked /\ ~proceed THEN Stop(ExitCancelled([r EXCEPT !.prompted = TRUE]))
           ELSE IF DOMAIN profileUpdates(o) = {}
                THEN Stop(ExitError([r EXCEPT !.prompted = asked], NoProfileFields))
           ELSE Stop(ToFetch([r EXCEPT !.prompted = asked], env, file))
  /\ UNCHANGED <<env, file, lastWrite, wait, chain>>

ProfileFetched(reply) ==
  LET accountInfo == accountInfoOf(reply)
      existingMetadata == parseMetadata(accountInfo, "posting_json_metadata")
      existingProfile == IF "profile" \in DOMAIN existingMetadata THEN existingMetadata.profile
                         ELSE EmptyObj
      updatedProfile == Spread(existingProfile, profileUpdates(run.opt))
      updatedMetadata == Spread(existingMetadata, [profile |-> updatedProfile])
      op == [type |-> "account_update2",
             value |-> [account |-> run.account, json_metadata |-> NoText,
                        posting_json_metadata |-> JSONstringify(updatedMetadata),
                        extensions |-> <<>>]]
      called == received(net, reply)
  IN IF reply = "throws"
     THEN run' = ExitSpinnerFail(run, env, Msg("request failed", "", "", 0)) /\ net' = called
     ELSE GoBroadcast(run, called, <<op>>, "active")

(***************************************************************************)
(* The node's reply to the call a handler awaits                           *)
(***************************************************************************)

FetchReply(reply) ==
  /\ run.pc = "fetch"
  /\ reply \in (IF run.cmd = "claim" THEN ClaimReplies ELSE FetchReplies)
  /\ CASE run.cmd = "publish" -> PublishFetched(reply)
       [] run.cmd = "edit" -> EditFetched(reply)
       [] run.cmd = "claim" -> ClaimFetched(reply)
       [] run.cmd = "delegate" -> DelegateFetched(reply)
       [] OTHER -> ProfileFetched(reply)
  /\ UNCHANGED <<env, file, lastWrite, wait, chain>>

(***************************************************************************)
(* HiveClient.broadcast, the network part, and the handler's continuation  *)
(***************************************************************************)

BroadcastOutcomes == {"bad key", "create fails", "rejected", "accepted", "accepted, wrapped"}

\* Whether and when the node reports the transaction as included in a
\* block: a lookup made up to `after` milliseconds after the start of the
\* wait finds no block number, a later one does.
ConfirmDelays == {0, 8999, 9000}

ChainScenarios ==
  {[confirms |-> TRUE, after |-> a] : a \in ConfirmDelays} \cup {[confirms |-> FALSE, after |-> 0]}

DefaultTimeoutMs == 30000

\* An interval of one second: thirty polls in the default timeout.
PollIntervalFast == DefaultTimeoutMs \div 30

PollIntervalMs == 3000

BroadcastTx(outcome, scenario) ==
  /\ run.pc = "broadcast"
  /\ LET tx == txOperations(run.ops)
         res == IF outcome = "accepted" THEN [tx_id |-> "tx1"]
                ELSE [id |-> "1", result |-> [tx_id |-> "tx1"]]
         waits == run.cmd \in WaitCommands /\ run.opt.wait
     IN CASE outcome = "bad key" ->
               \* PrivateKey.fromString(key) throws
               /\ run' = ExitSpinnerFail(run, env, Msg("invalid private key", "", "", 0))
               /\ UNCHANGED <<net, wait, chain>>
          [] outcome = "create fails" ->
               \* tx.create(...) fails to reach the node
               /\ run' = ExitSpinnerFail(run, env, Msg("request failed", "", "", 0))
               /\ net' = [net EXCEPT !.calls = @ + 1]
               /\ UNCHANGED <<wait, chain>>
          [] outcome = "rejected" ->
               \* tx.broadcast() throws the node's error
               /\ run' = ExitSpinnerFail(run, env, Msg("broadcast failed", "", "", 0))
               /\ net' = [net EXCEPT !.calls = @ + 2, !.txCreated = @ + 1,
                                     !.submitted = Append(@, tx)]
               /\ UNCHANGED <<wait, chain>>
          [] OTHER ->
               /\ net' = [net EXCEPT !.calls = @ + 2, !.txCreated = @ + 1,
                                     !.submitted = Append(@, tx)]
               /\ IF waits
                  THEN /\ run' = [run EXCEPT !.pc = "wait", !.result = res]
                       /\ wait' = [NoWait EXCEPT !.txId = txIdOf(res),
                                                 !.timeoutMs = DefaultTimeoutMs]
                       /\ chain' = scenario
                  ELSE /\ run' = ExitSuccess([run EXCEPT !.result = res], env,
                                             Msg(successText(run), "", "", 0))
                       /\ UNCHANGED <<wait, chain>>
  /\ UNCHANGED <<env, file, lastWrite>>

(***************************************************************************)
(* HiveClient.waitForTransaction(txId, timeoutMs = 30000)                  *)
(*                                                                         *)
(*   start = now                                                           *)
(*   while (now - start < timeoutMs) {                                     *)
(*     sleep(pollInterval)                                                 *)
(*     try { tx = lookup(txId); if (tx has a block number) return tx }     *)
(*     catch { /* not yet confirmed */ }                                   *)
(*   }                                                                     *)
(*   throw Error(txId, elapsed seconds)                                    *)
(*                                                                         *)
(* The node answers at once; time passes in the sleep only.                *)
(***************************************************************************)

\* What the node answers to the lookup made at time t.
lookup(c, t, fails) ==
  IF fails THEN "error"
  ELSE IF c.confirms /\ t > c.after THEN "block_num" ELSE "not found"

\* A loop that gives up at the first lookup error.
afterLookupThrowing(answer) ==
  CASE answer = "block_num" -> "confirmed"
    [] answer = "error" -> "failed"
    [] OTHER -> "none"

\* What the loop does with an answer: it returns at a block number and goes
\* on otherwise, a lookup error included.
afterLookup(answer) == IF answer = "block_num" THEN "confirmed" ELSE "none"

\* The error of a time-out that does not say which transaction.
timeoutErrorAnonymous(txId, elapsed) ==
  Msg("Transaction not confirmed", "", "", elapsed \div 1000)

\* The error thrown when the loop ends without a confirmation.
timeoutError(txId, elapsed) ==
  Msg("Transaction not confirmed", txId, "", elapsed \div 1000)

\* How a handler, or a direct caller (cmd "none"), goes on after the wait.
afterWait(r, e, outcome, err) ==
  CASE outcome = "none" -> r
    [] r.cmd = "none" -> [r EXCEPT !.pc = "done"]
    [] outcome = "confirmed" -> ExitSuccess(r, e, Msg(successText(r), "", "", 0))
    [] OTHER -> ExitSpinnerFail(r, e, err)

\* One iteration of the loop: sleep, then one lookup.
WaitPoll(fails) ==
  /\ run.pc = "wait"
  /\ wait.elapsed < wait.timeoutMs
  /\ LET t == wait.elapsed + PollIntervalMs
         answer == lookup(chain, t, fails)
         outcome == afterLookup(answer)
     IN /\ wait' = [wait EXCEPT !.elapsed = t,
                                !.polls = @ + 1,
                                !.log = Append(@, [t |-> t, answer |-> answer]),
                                !.outcome = outcome]
        /\ net' = [net EXCEPT !.calls = @ + 1]
        /\ run' = afterWait(run, env, outcome, Msg("lookup failed", "", "", 0))
  /\ UNCHANGED <<env, file, lastWrite, chain>>

\* The loop condition fails: the timeout error is thrown.
WaitExpire ==
  /\ run.pc = "wait"
  /\ wait.elapsed >= wait.timeoutMs
  /\ LET err == timeoutError(wait.txId, wait.elapsed)
     IN /\ wait' = [wait EXCEPT !.outcome = "timeout", !.error = err]
        /\ run' = afterWait(run, env, "timeout", err)
  /\ UNCHANGED <<env, file, lastWrite, net, chain>>

\* The process has ended; the next invocation starts afresh.
Reset ==
  /\ run.pc = "done"
  /\ run' = IdleRun
  /\ net' = NoNet
  /\ wait' = NoWait
  /\ chain' = NoChain
  /\ env' = [env EXCEPT !.node = Undef]
  /\ UNCHANGED <<file, lastWrite>>

\* The preAction hook of the program for the global option --node <url>:
\* process.env.HIVE_NODE = opts.node, before the command's action runs.
PreAction(node) ==
  /\ run.pc = "idle"
  /\ env.node = Undef
  /\ env' = [env EXCEPT !.node = node]
  /\ UNCHANGED <<file, lastWrite, run, net, wait, chain>>

(***************************************************************************)
(* config, config set, config --show, config --clear (commands/config.ts)  *)
(***************************************************************************)

NoWrite == [op |-> "none", arg |-> EmptyObj]

\* Answers to the interactive prompts; the account prompt rejects the empty
\* string, the node prompt has a non-empty default.
WizardAnswers ==
  {[account |-> "fay", postingKey |-> pk, activeKey |-> ak, node |-> nd] :
     pk \in {"", "fPK"}, ak \in {"", "fAK"}, nd \in {"https://api.hive.blog", "n1"}}

ConfigWizard(answers) ==
  /\ run.pc = "idle"
  /\ LET c == [account |-> answers.account,
               postingKey |-> Or(answers.postingKey, Undef),
               activeKey |-> Or(answers.activeKey, Undef),
               node |-> answers.node]
     IN /\ file' = saveConfig(c)
        /\ lastWrite' = [op |-> "save", arg |-> c]
        /\ run' = [run EXCEPT !.pc = "done", !.cmd = "config", !.exitCode = 0,
                              !.config = getConfig(env, file),
                              !.msg = Msg("Configuration saved", "", "", 0)]
  /\ UNCHANGED <<env, net, wait, chain>>

SetKeys == ConfigKeys \cup {"chainId"}
SetValues == {"val"}

ConfigSet(key, value) ==
  /\ run.pc = "idle"
  /\ LET got == getConfig(env, file)
         c == IF got.isNull THEN [account |-> ""] ELSE got.obj
         r == [run EXCEPT !.cmd = "config set", !.config = got]
     IN IF key \notin {"account", "postingKey", "activeKey", "node"}
        THEN /\ run' = ExitError(r, Msg("Invalid key", key, "", 0))
             /\ UNCHANGED <<file, lastWrite>>
        ELSE LET updated == Spread(c, [k \in {key} |-> value])
             IN /\ file' = saveConfig(updated)
                /\ lastWrite' = [op |-> "save", arg |-> updated]
                /\ run' = [r EXCEPT !.pc = "done", !.exitCode = 0,
                                    !.msg = Msg("Set", key, "", 0)]
  /\ UNCHANGED <<env, net, wait, chain>>

ConfigClear ==
  /\ run.pc = "idle"
  /\ file' = clearConfig(file)
  /\ lastWrite' = [op |-> "clear", arg |-> EmptyObj]
  /\ run' = [run EXCEPT !.pc = "done", !.cmd = "config --clear", !.exitCode = 0,
                        !.msg = Msg("Configuration cleared", "", "", 0)]
  /\ UNCHANGED <<env, net, wait, chain>>

ConfigShow ==
  /\ run.pc = "idle"
  /\ LET got == getConfig(env, file)
     IN run' = [run EXCEPT !.pc = "done", !.cmd = "config --show", !.exitCode = 0,
                           !.config = got,
                           !.printed = ~got.isNull,
                           !.msg = IF got.isNull THEN Msg("No configuration set", "", "", 0)
                                   ELSE NoMsg]
  /\ UNCHANGED <<env, file, lastWrite, net, wait, chain>>

\* Outside the program: the user starts the next invocation with another
\* environment, or the file is damaged.
SetEnv(e) ==
  /\ run.pc = "idle"
  /\ env' = e
  /\ UNCHANGED <<file, lastWrite, run, net, wait, chain>>

DamageFile ==
  /\ run.pc = "idle"
  /\ file.state = "ok"
  /\ file' = CorruptFile
  /\ lastWrite' = [op |-> "damage", arg |-> EmptyObj]
  /\ UNCHANGED <<env, run, net, wait, chain>>

(***************************************************************************)
(* Specification of the configuration commands, with the social commands   *)
(* as users of the resolved configuration.                                 *)
(***************************************************************************)

InitConfig ==
  /\ env \in ConfigEnvs
  /\ file = NoFile
  /\ lastWrite = NoWrite
  /\ run = IdleRun
  /\ net = NoNet
  /\ wait = NoWait
  /\ chain = NoChain

NextConfig ==
  \/ \E e \in ConfigEnvs : SetEnv(e)
  \/ \E a \in WizardAnswers : ConfigWizard(a)
  \/ \E k \in SetKeys, v \in SetValues : ConfigSet(k, v)
  \/ ConfigClear
  \/ ConfigShow
  \/ DamageFile
  \/ \E c \in SocialCommands, flag \in FlagAccounts, w \in BOOLEAN : StartSocial(c, flag, w)
  \/ \E o \in BroadcastOutcomes, s \in ChainScenarios : BroadcastTx(o, s)
  \/ Reset

SpecConfig == InitConfig /\ [][NextConfig]_vars

(***************************************************************************)
(* Properties of the configuration resolver                                *)
(***************************************************************************)

FileValue(k) == IF file.state = "ok" THEN Get(file.json, k) ELSE Undef

PrecedenceAccount(flag) ==
  IF Truthy(flag) THEN flag
  ELSE IF Truthy(env.account) THEN env.account
  ELSE FileValue("account")

PrecedenceKey(k) == IF Truthy(env[k]) THEN env[k] ELSE FileValue(k)

\* C1: configuration precedence.  In a social command that has built its
\* operation, the account in the operation is the --account flag if given,
\* else the environment account if set (non-empty), else the file's account;
\* and postingKey and activeKey of the resolved configuration are the
\* environment's value if set, else the file's.
C1_Precedence ==
  (run.cmd \in SocialCommands /\ run.pc \in {"broadcast", "done"}) =>
    /\ run.ops # <<>> =>
         /\ run.account = PrecedenceAccount(run.opt.account)
         /\ run.ops[1].value.required_posting_auths = <<PrecedenceAccount(run.opt.account)>>
    /\ ~run.config.isNull =>
         \A k \in {"postingKey", "activeKey"} : Get(run.config.obj, k) = PrecedenceKey(k)

\* All three sources name a different account and both sources name a
\* different posting key, and the operation has been built.
C1_Witness ==
  /\ run.cmd \in SocialCommands
  /\ run.pc = "broadcast"
  /\ run.opt.account = "flo"
  /\ env.account = "eve"
  /\ FileValue("account") = "fay"
  /\ env.postingKey = "ePK"
  /\ FileValue("postingKey") = "fPK"

AccountAbsent == ~Truthy(env.account) /\ ~Truthy(FileValue("account"))

\* C2: when neither the environment nor the file supplies an account, the
\* resolver yields null, and a command that needs an account ends with a
\* message and exit code 1, having made no network call and submitted no
\* transaction.  (The statement of the specification; `config set` of a key
\* on an unconfigured machine leaves a file for which it fails.)
C2_Original ==
  AccountAbsent =>
    /\ getConfig(env, file).isNull
    /\ (run.cmd \in SocialCommands /\ run.pc = "done") =>
         /\ run.exitCode = 1
         /\ run.msg # NoMsg
         /\ net.calls = 0
         /\ net.submitted = <<>>

\* After `config set postingKey`, a follow reached client.broadcast with a
\* configuration whose account is empty.
C2_Witness ==
  /\ AccountAbsent
  /\ ~getConfig(env, file).isNull
  /\ run.cmd = "follow"
  /\ run.opt.account = "flo"
  /\ run.pc = "done"
  /\ net.broadcasts = 1
  /\ run.error.hint = "HIVE_ACCOUNT"

NoEnvOverrides == \A k \in {"account", "postingKey", "activeKey"} : ~Truthy(env[k])

\* C3: round trip.  When `config --show` resolves the configuration after a
\* save, with no environment overrides, account, keys and node are the saved
\* ones; after a clear with no environment account it finds none.
C3_RoundTrip ==
  (run.cmd = "config --show" /\ run.pc = "done") =>
    /\ (lastWrite.op = "save" /\ NoEnvOverrides) =>
         /\ ~run.config.isNull
         /\ \A k \in ConfigKeys : Get(run.config.obj, k) = Get(lastWrite.arg, k)
    /\ (lastWrite.op = "clear" /\ ~Truthy(env.account)) => run.config.isNull

\* A configuration with a node and without an active key was saved and then
\* resolved with no environment overrides.
C3_Witness ==
  /\ run.cmd = "config --show"
  /\ run.pc = "done"
  /\ lastWrite.op = "save"
  /\ NoEnvOverrides
  /\ Get(lastWrite.arg, "node") = "n1"
  /\ Get(lastWrite.arg, "activeKey") = Undef
  /\ Get(lastWrite.arg, "postingKey") = "fPK"


(***************************************************************************)
(* The commands.  A run starts from any configuration the config commands  *)
(* can leave behind, in any environment; one command runs to its end, and  *)
(* the next starts afresh.  Lookup errors during --wait are explored in    *)
(* SpecWait.                                                               *)
(***************************************************************************)

Envs ==
  {Env(a, k[1], k[2], j) :
     a \in {Undef, "eve"},
     k \in {<<Undef, Undef>>, <<"ePK", Undef>>, <<"ePK", "eAK">>},
     j \in {Undef, "1"}}

\* What `hive config` writes
FullFile == saveConfig([account |-> "fay", postingKey |-> "fPK", activeKey |-> "fAK", node |-> "n1"])
PostingOnlyFile ==
  saveConfig([account |-> "fay", postingKey |-> "fPK", activeKey |-> Undef,
              node |-> "https://api.hive.blog"])
\* What `hive config set postingKey val` writes when nothing is configured
KeyOnlyFile == saveConfig(Spread([account |-> ""], [postingKey |-> "val"]))

ConfigFiles == {NoFile, CorruptFile, FullFile, PostingOnlyFile, KeyOnlyFile}

Init ==
  /\ env \in Envs
  /\ file \in ConfigFiles
  /\ lastWrite = NoWrite
  /\ run = IdleRun
  /\ net = NoNet
  /\ wait = NoWait
  /\ chain = NoChain

Next ==
  \/ \E flag \in FlagAccounts, t \in Targets, wt \in WeightInputs, w \in BOOLEAN :
       StartVote(flag, t, wt, w)
  \/ \E t \in Targets, w \in BOOLEAN : StartDeleteComment(t, w)
  \/ \E flag \in FlagAccounts, b \in BodyInputs, d \in BOOLEAN, w \in BOOLEAN :
       StartReply(flag, b, d, w)
  \/ \E flag \in FlagAccounts, m \in MemoInputs, p \in BOOLEAN, w \in BOOLEAN :
       StartTransfer(flag, m, p, w)
  \/ \E flag \in FlagAccounts, j \in JsonSources, a \in AuthLists, w \in BOOLEAN :
       StartCustomJson(flag, j, a, w)
  \/ \E t \in RawOperations, k \in {"posting", "active"}, w \in BOOLEAN : StartBroadcast(t, k, w)
  \/ \E flag \in FlagAccounts, i \in PublishInputs, w \in BOOLEAN : StartPublish(flag, i, w)
  \/ \E flag \in FlagAccounts, i \in EditInputs, w \in BOOLEAN : StartEdit(flag, i, w)
  \/ \E flag \in FlagAccounts, w \in BOOLEAN : StartClaim(flag, w)
  \/ \E flag \in FlagAccounts, a \in DelegateAmounts, p \in BOOLEAN, w \in BOOLEAN :
       StartDelegate(flag, a, p, w)
  \/ \E flag \in FlagAccounts, i \in ProfileInputs, p \in BOOLEAN, w \in BOOLEAN :
       StartProfileUpdate(flag, i, p, w)
  \/ \E c \in SocialCommands, flag \in FlagAccounts, w \in BOOLEAN : StartSocial(c, flag, w)
  \/ \E reply \in ClaimReplies : FetchReply(reply)
  \/ \E o \in BroadcastOutcomes, sc \in ChainScenarios : BroadcastTx(o, sc)
  \/ WaitPoll(FALSE)
  \/ WaitExpire
  \/ Reset

Spec == Init /\ [][Next]_vars

(***************************************************************************)
(* Properties of the commands                                              *)
(***************************************************************************)

\* The key client.broadcast signs with, in the configuration of the client.
ClientKey == IF run.keyType = "active" THEN OptGet(run.client, "activeKey")
             ELSE OptGet(run.client, "postingKey")

\* C4: client.broadcast fails fast.  Once client.broadcast has been called
\* with a configuration that lacks the key of the key type, or whose account
\* is empty, the run has ended with exit code 1 on an error that names the
\* remedy (HIVE_ACTIVE_KEY or HIVE_POSTING_KEY for the key, else
\* HIVE_ACCOUNT), and no transaction was created or submitted.
C4_FailFast ==
  (net.broadcasts >= 1 /\ (~Truthy(ClientKey) \/ ~Truthy(OptGet(run.client, "account")))) =>
    /\ run.pc = "done"
    /\ run.exitCode = 1
    /\ run.error.hint = (IF Truthy(ClientKey) THEN "HIVE_ACCOUNT"
                         ELSE IF run.keyType = "active" THEN "HIVE_ACTIVE_KEY"
                         ELSE "HIVE_POSTING_KEY")
    /\ net.txCreated = 0
    /\ net.submitted = <<>>

\* delete-comment reached client.broadcast with a posting key and an empty
\* account.
C4_Witness ==
  /\ run.cmd = "delete-comment"
  /\ net.broadcasts = 1
  /\ Truthy(ClientKey)
  /\ OptGet(run.client, "account") = ""
  /\ run.error.hint = "HIVE_ACCOUNT"

\* C5: atomic broadcast.  client.broadcast is called at most once in a run
\* and at most one transaction is submitted; a submitted transaction holds
\* every operation the command built, in the order built; and a command that
\* built operations and ended with exit code 0 has submitted them.
C5_Atomic ==
  /\ net.broadcasts <= 1
  /\ Len(net.submitted) <= 1
  /\ net.submitted # <<>> =>
       /\ Len(net.submitted[1]) = Len(run.ops)
       /\ \A i \in 1..Len(run.ops) :
            net.submitted[1][i] = <<run.ops[i].type, run.ops[i].value>>
  /\ (run.pc = "done" /\ run.exitCode = 0 /\ run.ops # <<>>) => Len(net.submitted) = 1

\* publish --decline-rewards submitted its comment and its comment_options.
C5_Witness ==
  /\ run.cmd = "publish"
  /\ run.pc = "done"
  /\ Len(run.ops) = 2
  /\ run.ops[1].type = "comment"
  /\ run.ops[2].type = "comment_options"
  /\ Len(net.submitted) = 1
  /\ Len(net.submitted[1]) = 2

\* The identifying fields a command cannot do without.
NeedsAccount ==
  {"vote", "publish", "reply", "edit", "transfer", "delegate", "profile update", "custom-json"}
NeedsTarget == {"vote", "delete-comment"}
NeedsBody == {"publish", "reply", "edit"}
UnparseableUrls == {NotAUrl, NoAuthorUrl}

MissingField ==
  \/ run.cmd \in NeedsAccount /\ ~Truthy(PrecedenceAccount(run.opt.account))
  \/ /\ run.cmd \in NeedsTarget
     /\ IF run.opt.url # NoUrl THEN run.opt.url \in UnparseableUrls
        ELSE ~Truthy(run.opt.author) \/ ~Truthy(run.opt.permlink)
  \/ run.cmd = "publish" /\ run.opt.parentUrl \in UnparseableUrls
  \/ run.cmd \in NeedsBody /\ ~Truthy(run.opt.body) /\ ~Truthy(run.opt.bodyFile)

\* C9: validation before the network.  A run of vote, publish, reply, edit,
\* delete-comment, transfer, delegate, profile update or custom-json that
\* lacks an identifying field (the account; author and permlink or a
\* parseable URL; the body) has ended with a message and exit code 1, with
\* no RPC call made, client.broadcast not called and nothing submitted.
C9_ValidateFirst ==
  (run.cmd \in NeedsAccount \cup NeedsTarget /\ MissingField) =>
    /\ run.pc = "done"
    /\ run.exitCode = 1
    /\ ~run.crashed
    /\ run.msg.text # ""
    /\ net.calls = 0
    /\ net.broadcasts = 0
    /\ net.submitted = <<>>

\* vote --url with a text that is no URL, the account being known.
C9_Witness ==
  /\ run.cmd = "vote"
  /\ run.opt.url = NotAUrl
  /\ Truthy(run.account)
  /\ run.pc = "done"
  /\ run.msg.text = "Could not parse --url"
  /\ net.calls = 0

StateChanging ==
  SocialCommands \cup
    {"publish", "reply", "edit", "delete-comment", "vote", "transfer", "claim", "delegate",
     "profile update", "custom-json", "broadcast"}

\* C11: every state-changing command takes --wait.  A run given the flag is
\* not turned away for it, and once its transaction is accepted it calls
\* waitForTransaction with the transaction id of the broadcast before it
\* ends.  (The statement of the specification; the social commands, edit,
\* claim, delegate and profile update declare no such option.)
C11_Original ==
  (run.cmd \in StateChanging /\ run.opt.wait) =>
    /\ run.msg # UnknownOption
    /\ (run.pc \in {"wait", "done"} /\ Len(net.submitted) = 1 /\ DOMAIN run.result # {}) =>
         wait.txId = "tx1"

\* follow --wait ended before its handler ran.
C11_Witness ==
  /\ run.cmd = "follow"
  /\ run.opt.wait
  /\ run.pc = "done"
  /\ run.exitCode = 1
  /\ run.msg = UnknownOption
  /\ net.broadcasts = 0

\* C10: every failure is reported.  A run that has ended has exit code 0 or
\* 1, did not end in an unhandled exception, and printed a message if its
\* exit code is 1.  (The statement of the specification; `broadcast` with a
\* malformed JSON argument ends in an unhandled exception.)
C10_Original ==
  run.pc = "done" =>
    /\ run.exitCode \in {0, 1}
    /\ ~run.crashed
    /\ run.exitCode = 1 => run.msg # NoMsg

\* broadcast with a malformed argument ended in an unhandled exception.
C10_Witness ==
  /\ run.cmd = "broadcast"
  /\ run.opt.operations = Garbage
  /\ run.pc = "done"
  /\ run.crashed
  /\ run.msg = NoMsg

(***************************************************************************)
(* waitForTransaction on its own, called against a node that confirms      *)
(* after some delay or never, and whose lookups may fail.                  *)
(***************************************************************************)

Timeouts == {DefaultTimeoutMs, 10000, 1000, 0}
TxIds == {"tx1", "tx2"}

InitWait ==
  /\ env = Env(Undef, Undef, Undef, Undef)
  /\ file = NoFile
  /\ lastWrite = NoWrite
  /\ run = [IdleRun EXCEPT !.pc = "wait"]
  /\ net = NoNet
  /\ \E id \in TxIds, ms \in Timeouts : wait = [NoWait EXCEPT !.txId = id, !.timeoutMs = ms]
  /\ chain \in ChainScenarios

NextWait ==
  \/ \E fails \in BOOLEAN : WaitPoll(fails)
  \/ WaitExpire

SpecWait == InitWait /\ [][NextWait]_vars

\* The caller's scheduler keeps running the loop.
FairSpecWait == SpecWait /\ WF_vars(NextWait)

(***************************************************************************)
(* Properties of waitForTransaction                                        *)
(***************************************************************************)

LastAnswer == IF wait.log = <<>> THEN "none" ELSE wait.log[Len(wait.log)].answer

\* C6: polling.  The polls are 3 seconds apart; a lookup error does not end
\* the wait; the wait returns at the first answer with a block number, and
\* no lookup follows it.
C6_Polling ==
  /\ wait.polls = Len(wait.log)
  /\ net.calls = wait.polls
  /\ \A i \in 1..Len(wait.log) : wait.log[i].t = 3000 * i
  /\ \A i \in 1..(Len(wait.log) - 1) : wait.log[i].answer # "block_num"
  /\ wait.outcome \in {"none", "confirmed", "timeout"}
  /\ wait.outcome = "confirmed" <=> LastAnswer = "block_num"
  /\ wait.outcome = "none" <=> run.pc = "wait"

\* A lookup failed, the wait went on, and a later lookup confirmed.
C6_Witness ==
  /\ wait.outcome = "confirmed"
  /\ run.pc = "done"
  /\ wait.polls = 3
  /\ wait.log[1].answer = "error"
  /\ wait.log[2].answer = "not found"

\* The node of C7: no block number for the first 9 seconds, a block number
\* afterwards (at the 9th second itself, either).
NineSeconds ==
  /\ chain.confirms
  /\ chain.after \in {8999, 9000}
  /\ \A i \in 1..Len(wait.log) :
       wait.log[i].answer = IF wait.log[i].t > chain.after THEN "block_num" ELSE "not found"

\* C7: bounded polling.  Against that node and with the default timeout the
\* wait makes at most 4 polls and does not end otherwise than confirmed, and
\* its 4th poll, if it gets that far, confirms.
C7_Bounded ==
  (NineSeconds /\ wait.timeoutMs = 30000) =>
    /\ wait.polls <= 4
    /\ wait.outcome # "timeout"
    /\ run.pc = "done" => wait.outcome = "confirmed"
    /\ wait.polls = 4 => wait.outcome = "confirmed"

\* The 4th poll confirmed after three that found nothing.
C7_Witness ==
  /\ NineSeconds
  /\ chain.after = 9000
  /\ wait.timeoutMs = 30000
  /\ wait.polls = 4
  /\ wait.outcome = "confirmed"
  /\ run.pc = "done"

NeverConfirms == ~chain.confirms

TimeoutInTime ==
  NeverConfirms =>
    /\ wait.outcome # "confirmed"
    /\ wait.polls <= wait.timeoutMs \div 3000 + 1
    /\ wait.outcome = "timeout" =>
         /\ run.pc = "done"
         /\ wait.elapsed >= wait.timeoutMs
         /\ wait.elapsed <= wait.timeoutMs + 3000
         /\ wait.error.arg = wait.txId
         /\ wait.error.secs = wait.elapsed \div 1000

\* C8: confirmation timeout.  When no answer ever carries a block number
\* the wait never succeeds and always ends: it fails no earlier than
\* timeoutMs and no later than timeoutMs plus 3 seconds, with an error that
\* names the transaction id and the elapsed seconds.
C8_Timeout == [](TimeoutInTime) /\ <>(NeverConfirms => wait.outcome = "timeout")

\* A 10-second wait for tx2 timed out after 12 seconds.
C8_Witness ==
  /\ NeverConfirms
  /\ wait.outcome = "timeout"
  /\ wait.txId = "tx2"
  /\ wait.timeoutMs = 10000
  /\ wait.elapsed = 12000
  /\ wait.error.arg = "tx2"
  /\ wait.error.secs = 12


(***************************************************************************)
(* publish: beneficiaries and comment_options                              *)
(***************************************************************************)

RECURSIVE SumWeights(_)
SumWeights(items) ==
  IF items = <<>> THEN 0 ELSE items[1].weight + SumWeights(Tail(items))

\* The run is a publish with an explicit beneficiary list (a JSON array, not
\* replaced by --burn-rewards).
ExplicitBeneficiaries ==
  /\ run.cmd = "publish"
  /\ ~run.opt.burnRewards
  /\ run.opt.beneficiaries.isArray

\* C14: a publish with an explicit beneficiary list whose weights sum to at
\* most 10000 places the list in the extensions of comment_options; one whose
\* weights sum to more than 10000 ends with exit code 1 before any network
\* call.  (The statement of the specification; the handler never sums the
\* weights.)
C14_Original ==
  ExplicitBeneficiaries =>
    IF SumWeights(run.opt.beneficiaries.items) <= 10000
    THEN run.ops # <<>> =>
           /\ Len(run.ops) = 2
           /\ run.ops[2].value.extensions =
                <<<<0, [beneficiaries |-> run.opt.beneficiaries.items]>>>>
    ELSE /\ run.pc = "done"
         /\ run.exitCode = 1
         /\ net.calls = 0
         /\ net.submitted = <<>>

\* A publish whose beneficiaries take 11000 basis points was submitted.
C14_Witness ==
  /\ ExplicitBeneficiaries
  /\ SumWeights(run.opt.beneficiaries.items) = 11000
  /\ run.pc = "done"
  /\ run.exitCode = 0
  /\ net.broadcasts = 1
  /\ Len(net.submitted) = 1
  /\ net.submitted[1][2][2].extensions = <<<<0, [beneficiaries |-> OverBeneficiaries.items]>>>>

\* One of the four reward options was given on the command line.
RewardOptionRequested ==
  \/ run.opt.declineRewards
  \/ run.opt.maxPayout # Undef
  \/ run.opt.beneficiaries # NoText
  \/ run.opt.burnRewards

NoParentNoCommunity ==
  /\ run.opt.parentUrl = NoUrl
  /\ run.opt.parentAuthor = ""
  /\ run.opt.parentPermlink = ""
  /\ run.opt.community = Undef

\* C15: the list publish builds starts with the comment; it has a second
\* operation, comment_options with the comment's author and permlink, exactly
\* when a reward option was requested; with none it is the single comment by
\* the resolved account, with empty parent_author and parent_permlink equal
\* to the permlink when no parent or community is given.
C15_CommentOptions ==
  (run.cmd = "publish" /\ run.ops # <<>>) =>
    /\ run.ops[1].type = "comment"
    /\ run.ops[1].value.author = PrecedenceAccount(run.opt.account)
    /\ Len(run.ops) = (IF RewardOptionRequested THEN 2 ELSE 1)
    /\ Len(run.ops) = 2 =>
         /\ run.ops[2].type = "comment_options"
         /\ run.ops[2].value.author = run.ops[1].value.author
         /\ run.ops[2].value.permlink = run.ops[1].value.permlink
    /\ NoParentNoCommunity =>
         /\ run.ops[1].value.parent_author = ""
         /\ run.ops[1].value.parent_permlink = run.ops[1].value.permlink
    /\ net.submitted # <<>> => Len(net.submitted[1]) = Len(run.ops)

\* A publish with --burn-rewards alone was submitted as comment, then
\* comment_options.
C15_Witness ==
  /\ run.cmd = "publish"
  /\ run.opt.burnRewards
  /\ run.opt.beneficiaries = NoText
  /\ Len(net.submitted) = 1
  /\ net.submitted[1][1][1] = "comment"
  /\ net.submitted[1][2][1] = "comment_options"

(***************************************************************************)
(* claim                                                                   *)
(***************************************************************************)

\* The account record the node sent, without its envelope; no field at all
\* when it sent none.
SentAccount(reply) ==
  CASE reply = "full" -> FullAccount
    [] reply = "sparse" -> SparseAccount
    [] reply = "dust" -> DustAccount
    [] OTHER -> EmptyObj

\* The balance k of the record, '0' in its unit when the record lacks it
SentBalance(reply, k, zero) ==
  IF k \in DOMAIN SentAccount(reply) THEN SentAccount(reply)[k] ELSE zero

\* The amount text holds a digit other than 0.
Positive(asset) == \E i \in 1..Len(asset[1]) : asset[1][i] \in Digit \ {"0"}

SomeReward(reply) ==
  \/ Positive(SentBalance(reply, "reward_hive_balance", ZeroHive))
  \/ Positive(SentBalance(reply, "reward_hbd_balance", ZeroHbd))
  \/ Positive(SentBalance(reply, "reward_vesting_balance", ZeroVests))

ClaimOperation(reply) ==
  [type |-> "claim_reward_balance",
   value |-> [account |-> PrecedenceAccount(run.opt.account),
              reward_hive |-> SentBalance(reply, "reward_hive_balance", ZeroHive),
              reward_hbd |-> SentBalance(reply, "reward_hbd_balance", ZeroHbd),
              reward_vesting |-> SentBalance(reply, "reward_vesting_balance", ZeroVests)]]

\* C16: once get_accounts has answered a claim run, either no balance of the
\* record is above zero (or there is no record) and the run has ended with
\* 'No pending rewards to claim.', exit code 0 and no broadcast; or some
\* balance is above zero and the one operation built, and submitted if any
\* is, is claim_reward_balance with the three balances as fetched.
C16_Claim ==
  (run.cmd = "claim" /\ Len(net.replies) = 1 /\ net.replies[1] # "throws") =>
    LET reply == net.replies[1]
    IN IF ~SomeReward(reply)
       THEN /\ run.pc = "done"
            /\ run.exitCode = 0
            /\ run.msg = NoRewards
            /\ run.ops = <<>>
            /\ net.broadcasts = 0
            /\ net.submitted = <<>>
       ELSE /\ run.msg # NoRewards
            /\ run.ops = <<ClaimOperation(reply)>>
            /\ net.broadcasts = 1
            /\ net.submitted # <<>> =>
                 net.submitted = <<<<<<"claim_reward_balance", ClaimOperation(reply).value>>>>>>

\* A claim was submitted for an account whose only reward is 0.000001 VESTS.
C16_Witness ==
  /\ run.cmd = "claim"
  /\ net.replies = <<"dust">>
  /\ run.pc = "done"
  /\ run.exitCode = 0
  /\ Len(net.submitted) = 1
  /\ net.submitted[1][1][2].reward_vesting = DustAccount.reward_vesting_balance
  /\ net.submitted[1][1][2].reward_hive = ZeroHive

\* A claim for an account with no reward ended without a broadcast.
C16_WitnessNothing ==
  /\ run.cmd = "claim"
  /\ net.replies = <<"sparse">>
  /\ run.msg = NoRewards
  /\ net.broadcasts = 0

(***************************************************************************)
(* transfer, delegate, profile update: the active key                      *)
(***************************************************************************)

ActiveKeyCommands == {"transfer", "delegate", "profile update"}

\* Neither the environment nor the file configures an active key.
NoActiveKey == ~Truthy(PrecedenceKey("activeKey"))

\* C17: in a run of transfer, delegate or profile update without a
\* configured active key, the user has been asked and has agreed before any
\* operation is built or any call is made; a run whose user declined has
\* ended with exit code 0, no RPC call and no broadcast; and no transaction
\* is created or submitted.
C17_ActiveKeyGate ==
  (run.cmd \in ActiveKeyCommands /\ NoActiveKey) =>
    /\ (run.pc # "idle" /\ Truthy(run.account) /\ run.msg # UnknownOption) => run.prompted
    /\ (run.ops # <<>> \/ net.calls > 0 \/ net.broadcasts > 0 \/ run.pc \in {"fetch", "broadcast"}) =>
         run.prompted /\ run.opt.proceed
    /\ (run.prompted /\ ~run.opt.proceed) =>
         /\ run.pc = "done"
         /\ run.exitCode = 0
         /\ run.msg = Cancelled
         /\ run.ops = <<>>
         /\ net.calls = 0
         /\ net.broadcasts = 0
    /\ run.pc # "broadcast"
    /\ net.txCreated = 0
    /\ net.submitted = <<>>

\* A delegation without an active key: the user agreed, the properties were
\* fetched, and the broadcast was refused for the missing key.
C17_Witness ==
  /\ run.cmd = "delegate"
  /\ NoActiveKey
  /\ run.prompted
  /\ run.opt.proceed
  /\ net.calls = 1
  /\ net.broadcasts = 1
  /\ run.pc = "done"
  /\ run.exitCode = 1
  /\ net.submitted = <<>>

\* A transfer without an active key that the user declined.
C17_WitnessDeclined ==
  /\ run.cmd = "transfer"
  /\ NoActiveKey
  /\ run.prompted
  /\ ~run.opt.proceed
  /\ run.exitCode = 0
  /\ net.calls = 0

(***************************************************************************)
(* delegate: HP to vesting shares                                          *)
(***************************************************************************)

\* The <amount> argument names the unit HP, in either case, after a number.
ValidHpAmount(parts) ==
  /\ parts[2] \in {"HP", "hp"}
  /\ parts[1] # <<>>
  /\ parts[1][1] \in Digit

\* hp * total_vesting_shares / total_vesting_fund_hive for the amounts given
\* and the totals of FullProps (fund 200 HIVE, shares 400 VESTS), in
\* millionths of a VESTS
ExpectedVests(parts) ==
  CASE parts[1] = <<"1", "0", "0">> -> 200 * 1000000
    [] parts[1] = <<"0", ".", "5">> -> 1000000
    [] OTHER -> 0

\* The user was asked about the missing active key and declined.
Declined == run.prompted /\ ~run.opt.proceed

\* The operation delegate builds follows the properties fetched in the same
\* run, and for the totals of FullProps carries hp * shares / fund.
DelegateConverts ==
  (run.cmd = "delegate" /\ run.ops # <<>>) =>
    /\ Len(net.replies) = 1
    /\ net.replies[1] \in {"full", "sparse"}
    /\ Len(run.ops) = 1
    /\ run.ops[1].type = "delegate_vesting_shares"
    /\ run.ops[1].value.delegator = PrecedenceAccount(run.opt.account)
    /\ net.replies[1] = "full" =>
         run.ops[1].value.vesting_shares =
           [millionths |-> ExpectedVests(run.opt.amount), unit |-> "VESTS"]
    /\ net.submitted # <<>> => net.submitted[1][1][2] = run.ops[1].value

SentMetadata(reply) ==
  IF reply = "full" THEN FullAccount.posting_json_metadata.value ELSE EmptyObj

SentProfile(reply) ==
  IF "profile" \in DOMAIN SentMetadata(reply) THEN SentMetadata(reply).profile ELSE EmptyObj

\* The profile keys given on the command line, each with its option
ProfileFields ==
  {<<"name", "name">>, <<"about", "about">>, <<"profile_image", "profileImage">>,
   <<"cover_image", "coverImage">>, <<"website", "website">>, <<"location", "location">>}

GivenFields == {f \in ProfileFields : run.opt[f[2]] \notin {Undef, ""}}

GivenKeys == {f[1] : f \in GivenFields}

\* The metadata of the operation profile update built: the fetched metadata
\* with the given fields replaced in 'profile' and everything else as sent.
ProfileFrame ==
  (run.cmd = "profile update" /\ run.ops # <<>>) =>
    /\ Len(net.replies) = 1
    /\ Len(run.ops) = 1
    /\ run.ops[1].type = "account_update2"
    /\ LET sent == SentMetadata(net.replies[1])
           old == SentProfile(net.replies[1])
           new == run.ops[1].value.posting_json_metadata.value
       IN /\ run.ops[1].value.posting_json_metadata.text = "json"
          /\ DOMAIN new = DOMAIN sent \cup {"profile"}
          /\ \A k \in DOMAIN sent \ {"profile"} : new[k] = sent[k]
          /\ DOMAIN new.profile = DOMAIN old \cup GivenKeys
          /\ \A f \in GivenFields : new.profile[f[1]] = run.opt[f[2]]
          /\ \A k \in DOMAIN old \ GivenKeys : new.profile[k] = old[k]
    /\ net.submitted # <<>> => net.submitted[1][1][2] = run.ops[1].value

C19_WitnessLocation ==
  /\ run.cmd = "profile update"
  /\ GivenKeys = {"location", "profile_image"}
  /\ net.replies = <<"full">>
  /\ Len(net.submitted) = 1
  /\ net.submitted[1][1][2].posting_json_metadata.value =
       [profile |-> [name |-> "Old", location |-> "Rome", profile_image |-> "http://i"],
        version |-> "2"]

RecognizedShape(cs) ==
  LET at == IndexOf(cs, "@", 1)
      slash == IndexOf(cs, "/", at + 1)
  IN /\ startsWithHttp(cs)
     /\ at > 1 /\ cs[at - 1] = "/"
     /\ slash > at + 1
     /\ slash < Len(cs)

\* The author and the complete permlink segment of such a text: what stands
\* between '@' and the next '/', and between that '/' and the next one or
\* the end.
UrlContent(cs) ==
  LET at == IndexOf(cs, "@", 1)
      slash == IndexOf(cs, "/", at + 1)
      next == IndexOf(cs, "/", slash + 1)
      stop == IF next = 0 THEN Len(cs) ELSE next - 1
  IN [author |-> Join(SubSeq(cs, at + 1, slash - 1)),
      permlink |-> Join(SubSeq(cs, slash + 1, stop))]

UrlCommands == {"vote", "delete-comment"}

\* C20: a vote or delete-comment given --url with a text of the recognized
\* shape builds its operation with the author and the complete permlink
\* segment of the URL, as --author and --permlink for that content would;
\* given a text that is no such URL it ends with exit code 1 and no call.
\* (The statement of the specification; the pattern of parseHiveUrl stops at
\* the first character outside [a-z0-9-].)
C20_Original ==
  (run.cmd \in UrlCommands /\ run.opt.url # NoUrl /\ run.msg # UnknownOption) =>
    IF RecognizedShape(run.opt.url)
    THEN /\ run.msg.text # "Could not parse --url"
         /\ run.ops # <<>> =>
              /\ run.ops[1].value.author = UrlContent(run.opt.url).author
              /\ run.ops[1].value.permlink = UrlContent(run.opt.url).permlink
    ELSE /\ run.pc = "done"
         /\ run.exitCode = 1
         /\ net.calls = 0
         /\ net.submitted = <<>>

\* A vote for https://x/@bob/p1_2 was submitted for the permlink p1.
C20_Witness ==
  /\ run.cmd = "vote"
  /\ run.opt.url = UnderscoreUrl
  /\ UrlContent(run.opt.url) = [author |-> "bob", permlink |-> "p1_2"]
  /\ run.pc = "done"
  /\ run.exitCode = 0
  /\ Len(net.submitted) = 1
  /\ net.submitted[1][1][2].author = "bob"
  /\ net.submitted[1][1][2].permlink = "p1"

(***************************************************************************)
(* JSON output mode                                                        *)
(***************************************************************************)

\* C22: with HIVE_JSON_OUTPUT=1 a finished run has written JSON and nothing
\* else, on success and failure alike, and a failed run has written a
\* message about the failure.  (The statement of the specification;
\* validation errors go through console.error as text, and spinner.fail is a
\* no-op in JSON mode.)
C22_Original ==
  (isJsonMode(env) /\ run.pc = "done") =>
    /\ run.format = "json"
    /\ run.exitCode = 1 => run.msg # NoMsg

\* In JSON mode a broadcast the node rejected ended the run with exit code 1
\* and nothing written.
C22_Witness ==
  /\ isJsonMode(env)
  /\ run.pc = "done"
  /\ run.exitCode = 1
  /\ Len(net.submitted) = 1
  /\ run.error = Msg("broadcast failed", "", "", 0)
  /\ run.msg = NoMsg
  /\ run.format = "none"

\* In JSON mode the missing account was reported as plain text.
C22_WitnessText ==
  /\ isJsonMode(env)
  /\ run.msg = AccountNotSpecified
  /\ run.format = "text"

\* What does hold in JSON mode: no spinner line is written, a success writes
\* the result as JSON, and so does a claim with nothing to claim.
JsonModeHolds ==
  (isJsonMode(env) /\ run.pc = "done" /\ run.exitCode = 0 /\ run.msg # Cancelled) =>
    /\ run.format = "json"
    /\ run.msg \in {NoMsg, NoRewards}

(***************************************************************************)
(* malformed JSON on the command line                                      *)
(***************************************************************************)

\* The run was given JSON that does not parse, or beneficiaries that are no
\* array, in an option whose value it would use.
MalformedJson ==
  \/ /\ run.cmd = "publish"
     /\ \/ run.opt.metadata.text = "garbage"
        \/ /\ ~run.opt.burnRewards
           /\ run.opt.beneficiaries.text # ""
           /\ (run.opt.beneficiaries.text = "garbage" \/ ~run.opt.beneficiaries.isArray)
  \/ /\ run.cmd = "custom-json"
     /\ run.opt.json = "{bad"
     /\ run.opt.jsonFile = Undef

\* C23: a publish with malformed --metadata or --beneficiaries, or a
\* custom-json with a malformed payload, has ended with a message and exit
\* code 1, and no broadcast was issued.  (The statement of the
\* specification; custom-json never parses its payload.)
C23_Original ==
  MalformedJson =>
    /\ run.pc = "done"
    /\ run.exitCode = 1
    /\ run.msg # NoMsg
    /\ net.broadcasts = 0
    /\ net.submitted = <<>>

\* custom-json --json '{bad' was submitted as it is.
C23_Witness ==
  /\ run.cmd = "custom-json"
  /\ MalformedJson
  /\ run.pc = "done"
  /\ run.exitCode = 0
  /\ Len(net.submitted) = 1
  /\ net.submitted[1][1][1] = "custom_json"
  /\ net.submitted[1][1][2].json = "{bad"

\* The publish part of C23 holds.
PublishJsonFatal == (run.cmd = "publish" /\ MalformedJson) => C23_Original

(***************************************************************************)
(* getConfig without a usable file                                         *)
(***************************************************************************)

\* The run resolved its configuration with getConfig.
ResolvedConfig ==
  /\ run.cmd \in SocialCommands \cup {"config --show"}
  /\ run.pc # "idle"
  /\ run.msg # UnknownOption

\* C24: with the file missing or malformed, getConfig does not raise; it
\* returns the account, postingKey and activeKey of the environment and no
\* node when the environment has an account, and nothing otherwise, the same
\* for a malformed file as for none; a client built from it uses the default
\* node.
C24_EnvOnly ==
  (ResolvedConfig /\ file.state # "ok") =>
    /\ ~run.crashed
    /\ IF env.account \in {Undef, ""}
       THEN run.config.isNull /\ run.node = Undef
       ELSE /\ ~run.config.isNull
            /\ run.config.obj.account = env.account
            /\ Get(run.config.obj, "postingKey") = env.postingKey
            /\ Get(run.config.obj, "activeKey") = env.activeKey
            /\ Get(run.config.obj, "node") = Undef
            /\ run.node \in {Undef, DEFAULT_NODE}
            /\ net.broadcasts > 0 => run.node = DEFAULT_NODE

\* With a malformed file and account and posting key in the environment, a
\* follow was submitted to the default node.
C24_Witness ==
  /\ file = CorruptFile
  /\ run.cmd = "follow"
  /\ env.account = "eve"
  /\ run.config = Some([account |-> "eve", postingKey |-> "ePK", activeKey |-> Undef])
  /\ run.node = DEFAULT_NODE
  /\ Len(net.submitted) = 1

(***************************************************************************)
(* publish: max_accepted_payout and --burn-rewards                         *)
(***************************************************************************)

\* C25: in the comment_options of publish, max_accepted_payout is
\* '0.000 HBD' whenever --decline-rewards is given, the --max-payout value
\* when that is given without --decline-rewards, and '1000000.000 HBD'
\* otherwise.  (The statement of the specification; the handler lets
\* --max-payout win over --decline-rewards.)
C25_Original ==
  (run.cmd = "publish" /\ Len(run.ops) = 2) =>
    run.ops[2].value.max_accepted_payout =
      (IF run.opt.declineRewards THEN "0.000 HBD"
       ELSE IF run.opt.maxPayout # Undef THEN run.opt.maxPayout
       ELSE "1000000.000 HBD")

\* A publish with --decline-rewards and --max-payout '100.000 HBD' was
\* submitted accepting a payout of 100 HBD.
C25_Witness ==
  /\ run.cmd = "publish"
  /\ run.opt.declineRewards
  /\ run.opt.maxPayout = "100.000 HBD"
  /\ Len(net.submitted) = 1
  /\ net.submitted[1][2][1] = "comment_options"
  /\ net.submitted[1][2][2].max_accepted_payout = "100.000 HBD"

\* C25 holds when the two options are not given together.
PayoutWithoutBoth ==
  (run.cmd = "publish" /\ (run.opt.declineRewards /\ run.opt.maxPayout # Undef)) \/ C25_Original

BurnExtensions == <<<<0, [beneficiaries |-> <<[account |-> "null", weight |-> 10000]>>]>>>>

\* C26: a publish with --burn-rewards builds comment_options whose extensions
\* are the one beneficiary 'null' with weight 10000, whatever --beneficiaries
\* holds; that value is not parsed, so it cannot fail the run.
C26_Burn ==
  (run.cmd = "publish" /\ run.opt.burnRewards) =>
    /\ run.msg.text # "Invalid JSON in beneficiaries option"
    /\ run.ops # <<>> =>
         /\ Len(run.ops) = 2
         /\ run.ops[2].type = "comment_options"
         /\ run.ops[2].value.extensions = BurnExtensions
    /\ net.submitted # <<>> => net.submitted[1][2][2].extensions = BurnExtensions

\* A publish with --burn-rewards and unparseable --beneficiaries was
\* submitted with the one beneficiary 'null'.
C26_Witness ==
  /\ run.cmd = "publish"
  /\ run.opt.burnRewards
  /\ run.opt.beneficiaries = Garbage
  /\ run.exitCode = 0
  /\ Len(net.submitted) = 1
  /\ net.submitted[1][2][2].extensions = BurnExtensions

(***************************************************************************)
(* publish: the existence check                                            *)
(***************************************************************************)

\* The lookup returned a post with the author and the permlink of this
\* publish.
FoundSamePost ==
  /\ net.replies = <<"full">>
  /\ FullPost.author = PrecedenceAccount(run.opt.account)
  /\ FullPost.permlink = run.opt.permlink

\* Before the lookup is answered nothing was broadcast; once it is, whatever
\* the answer, client.broadcast has been called, and a successful run says
\* 'updated' exactly when the same post was found.
LookupThenBroadcast ==
  run.cmd = "publish" =>
    /\ run.pc = "fetch" => (net.broadcasts = 0 /\ net.submitted = <<>> /\ net.replies = <<>>)
    /\ net.broadcasts > 0 => Len(net.replies) = 1
    /\ net.replies # <<>> =>
         /\ net.broadcasts = 1
         /\ run.isEdit = FoundSamePost
         /\ net.submitted # <<>> => net.submitted[1] = txOperations(run.ops)
         /\ (run.pc = "done" /\ run.exitCode = 0 /\ ~isJsonMode(env)) =>
              run.msg.text = (IF FoundSamePost THEN "Comment updated successfully"
                              ELSE "Comment created successfully")

\* The answer to the lookup leaves the operation list as it was built.
LookupKeepsOperations ==
  (run.cmd = "publish" /\ run.pc = "fetch") =>
    /\ run'.ops = run.ops
    /\ net'.broadcasts = 1
    /\ net'.calls = 1

\* C27: the existence check of publish comes before the broadcast and is
\* best-effort: whether it fails, returns nothing or returns a post, the
\* broadcast is issued with the operation list unchanged, and the run says
\* 'updated' only if the post returned has the same author and permlink,
\* 'created' otherwise.
C27_BestEffort == []LookupThenBroadcast /\ [][LookupKeepsOperations]_vars

\* The lookup failed and the post was submitted and reported as created.
C27_Witness ==
  /\ run.cmd = "publish"
  /\ net.replies = <<"throws">>
  /\ Len(net.submitted) = 1
  /\ run.pc = "done"
  /\ run.exitCode = 0
  /\ run.msg.text = "Comment created successfully"

\* The post was found and the run reported an update.
C27_WitnessUpdated ==
  /\ run.cmd = "publish"
  /\ FoundSamePost
  /\ run.exitCode = 0
  /\ run.msg.text = "Comment updated successfully"

(***************************************************************************)
(* edit: what is kept of the post                                          *)
(***************************************************************************)

\* The post the node sent, without its envelope
SentPost(reply) == IF reply = "full" THEN FullPost ELSE SparsePost

\* The field k of the post sent, '' when it has none
SentField(reply, k) == IF k \in DOMAIN SentPost(reply) THEN SentPost(reply)[k] ELSE ""

\* The body given to edit: the content of --body-file, else --body
NewBody == IF run.opt.bodyFile # Undef THEN readFile(run.opt.bodyFile).text ELSE run.opt.body

\* The tags given as 'a, b ', trimmed
NewTags == IF run.opt.tags = <<"a", " b ">> THEN <<"a", "b">> ELSE run.opt.tags

C28_WitnessKept ==
  /\ run.cmd = "edit"
  /\ net.replies = <<"full">>
  /\ run.opt.tags = <<>>
  /\ Len(net.submitted) = 1
  /\ net.submitted[1][1][2].title = "Old title"
  /\ net.submitted[1][1][2].json_metadata = FullPost.json_metadata

(***************************************************************************)
(* config set: what is kept of the file                                    *)
(***************************************************************************)

\* The value the file f persists for k, none when there is no usable file
Persisted(f, k) == IF f.state = "ok" THEN Get(f.json, k) ELSE Undef

\* The step is a run of config set <key> <value>; the key is in the message.
ConfigSetStep == run.pc = "idle" /\ run'.cmd = "config set"

\* A config set of a valid key changes that key of the file and no other;
\* one of an invalid key exits 1 and leaves the file alone.
SetChangesOneKey ==
  ConfigSetStep =>
    IF run'.msg.arg \in ConfigKeys
    THEN /\ run'.exitCode = 0
         /\ Persisted(file', run'.msg.arg) \in SetValues
         /\ \A k \in ConfigKeys \ {run'.msg.arg} : Persisted(file', k) = Persisted(file, k)
    ELSE /\ run'.exitCode = 1
         /\ file' = file

\* C29: config set <key> <value> changes only the named key of the persisted
\* file, whatever the environment holds, and writes no value that came from
\* the environment alone; with an invalid key it exits 1 and the file is
\* unchanged.  (The statement of the specification; the command saves the
\* configuration getConfig resolved, environment included.)
C29_Original == [][SetChangesOneKey]_vars

\* After config set node, the file holds the posting key of the environment,
\* which no config command can have written there otherwise.
C29_Witness ==
  /\ run.cmd = "config set"
  /\ run.pc = "done"
  /\ run.msg.arg = "node"
  /\ env.postingKey = "ePK"
  /\ Persisted(file, "postingKey") = "ePK"
  /\ \A a \in WizardAnswers : a.postingKey # "ePK"
  /\ "ePK" \notin SetValues

\* What holds of config set: the named key gets the value, an invalid key
\* exits 1 with the file unchanged, and without environment values and with
\* a usable file no other key changes.
SetWithoutEnvironment ==
  ConfigSetStep =>
    IF run'.msg.arg \in ConfigKeys
    THEN /\ run'.exitCode = 0
         /\ Persisted(file', run'.msg.arg) \in SetValues
         /\ (NoEnvOverrides /\ file.state = "ok" /\ "account" \in DOMAIN file.json) =>
              \A k \in ConfigKeys \ {run'.msg.arg} : Persisted(file', k) = Persisted(file, k)
    ELSE /\ run'.exitCode = 1
         /\ file' = file

ConfigSetFrame == [][SetWithoutEnvironment]_vars

(***************************************************************************)
(* Order of broadcast, wait and the report of success                      *)
(***************************************************************************)

\* The run reported success: the line of spinner.succeed or, in JSON mode,
\* the result printed after it.
SuccessReported ==
  run.printed \/ (run.msg # NoMsg /\ run.msg.text = successText(run))

\* The broadcast returned a result and its transaction reached the node.
BroadcastReturned ==
  /\ DOMAIN run.result # {}
  /\ net.txCreated >= 1
  /\ Len(net.submitted) >= 1

\* result.result.tx_id if present, else result.tx_id
ResultTxId ==
  IF "result" \in DOMAIN run.result /\ "tx_id" \in DOMAIN run.result["result"]
  THEN run.result["result"]["tx_id"]
  ELSE IF "tx_id" \in DOMAIN run.result THEN run.result["tx_id"] ELSE Undef

\* waitForTransaction returned for the transaction of the result
WaitReturned ==
  /\ wait.outcome = "confirmed"
  /\ wait.polls >= 1
  /\ wait.txId # Undef
  /\ wait.txId = ResultTxId

\* C30: a state-changing command reports success, with exit code 0, only
\* after the broadcast returned without error and, under --wait, only after
\* waitForTransaction returned for result.result.tx_id if present, else
\* result.tx_id; while it waits nothing is reported, and a wait that fails
\* after a successful broadcast ends the run with exit code 1 and without a
\* report of success.
C30_SuccessOrdering ==
  /\ (run.cmd \in StateChanging /\ SuccessReported) =>
       /\ run.pc = "done"
       /\ run.exitCode = 0
       /\ BroadcastReturned
       /\ run.opt.wait => WaitReturned
  /\ run.pc \in {"fetch", "broadcast", "wait"} =>
       /\ ~SuccessReported
       /\ run.exitCode = -1
  /\ (run.cmd \in StateChanging /\ run.pc = "done" /\ run.opt.wait
        /\ BroadcastReturned /\ ~WaitReturned) =>
       /\ run.exitCode = 1
       /\ ~SuccessReported

\* transfer --wait reported success after a wrapped result and a wait that
\* returned at its fourth lookup.
C30_Witness ==
  /\ run.cmd = "transfer"
  /\ run.opt.wait
  /\ run.pc = "done"
  /\ run.exitCode = 0
  /\ SuccessReported
  /\ "result" \in DOMAIN run.result
  /\ wait.txId = "tx1"
  /\ wait.polls = 4
  /\ wait.outcome = "confirmed"

\* delete-comment --wait: the transaction was accepted, the wait ran out of
\* time, the run ended with exit code 1 and the error of the wait.
C30_WitnessWaitFails ==
  /\ run.cmd = "delete-comment"
  /\ run.opt.wait
  /\ run.pc = "done"
  /\ BroadcastReturned
  /\ wait.outcome = "timeout"
  /\ run.exitCode = 1
  /\ run.error = timeoutError("tx1", DefaultTimeoutMs)
  /\ ~SuccessReported

\* The runs that end with exit code 0 and no report of success: a prompt
\* answered with no and a claim with nothing to claim, neither of which
\* sent a transaction.
ExitZeroWithoutBroadcast ==
  (run.pc = "done" /\ run.exitCode = 0 /\ ~SuccessReported /\ run.cmd \in StateChanging) =>
    /\ run.msg \in {Cancelled, NoRewards}
    /\ net.broadcasts = 0

(***************************************************************************)
(* vote over the weights a user can type                                   *)
(***************************************************************************)

MaxWeightInput == 101

DigitChar(d) ==
  CASE d = 0 -> "0" [] d = 1 -> "1" [] d = 2 -> "2" [] d = 3 -> "3" [] d = 4 -> "4"
    [] d = 5 -> "5" [] d = 6 -> "6" [] d = 7 -> "7" [] d = 8 -> "8" [] OTHER -> "9"

\* The decimal text of a natural number, as typed after --weight
RECURSIVE digitsOf(_)
digitsOf(n) == IF n < 10 THEN <<DigitChar(n)>> ELSE Append(digitsOf(n \div 10), DigitChar(n % 10))

VoteWeights ==
  {digitsOf(n) : n \in 0..MaxWeightInput} \cup
    {<<"1", "5", "0">>, <<"-", "5">>, <<"a", "b", "c">>, <<"5", "0", ".", "5">>, <<"5", "x">>}

InitVote ==
  /\ env \in {Env(a, "ePK", Undef, Undef) : a \in {Undef, "eve"}}
  /\ file \in {NoFile, FullFile}
  /\ lastWrite = NoWrite
  /\ run = IdleRun
  /\ net = NoNet
  /\ wait = NoWait
  /\ chain = NoChain

NextVote ==
  \/ \E flag \in FlagAccounts, t \in Targets, wt \in VoteWeights : StartVote(flag, t, wt, FALSE)
  \/ \E o \in BroadcastOutcomes, sc \in ChainScenarios : BroadcastTx(o, sc)
  \/ Reset

SpecVote == InitVote /\ [][NextVote]_vars

\* The weight typed is the decimal text of a whole number from 1 to 100.
InPercentRange(text) == \E n \in 1..100 : text = digitsOf(n)

\* C12: for a weight typed as w in 1..100 the vote operation built has
\* weight w * 100, and carries the resolved voter and the author and
\* permlink as resolved (the flags, or what parseHiveUrl returned for the
\* URL); the operation submitted is that one.
C12_Weight ==
  (run.cmd = "vote" /\ run.ops # <<>>) =>
    \A n \in 1..100 :
      run.opt.weight = digitsOf(n) =>
        /\ run.ops[1].type = "vote"
        /\ run.ops[1].value.weight = Num(n * 100)
        /\ run.ops[1].value.voter = PrecedenceAccount(run.opt.account)
        /\ run.ops[1].value.author =
             (IF run.opt.url = NoUrl THEN run.opt.author ELSE parseHiveUrl(run.opt.url).obj.author)
        /\ run.ops[1].value.permlink =
             (IF run.opt.url = NoUrl THEN run.opt.permlink
              ELSE parseHiveUrl(run.opt.url).obj.permlink)
        /\ net.submitted # <<>> => net.submitted[1][1][2] = run.ops[1].value

\* A vote of 37 per cent by URL was submitted with weight 3700.
C12_Witness ==
  /\ run.cmd = "vote"
  /\ run.opt.weight = <<"3", "7">>
  /\ run.opt.url = GoodUrl
  /\ Len(net.submitted) = 1
  /\ net.submitted[1][1][2].weight = Num(3700)

\* C13: a weight outside 1..100, or one that is no number, ends the vote
\* with exit code 1 before any network call, and no vote with a weight
\* outside 100..10000 is submitted.  (The statement of the specification;
\* the handler multiplies whatever parseInt returns by 100.)
C13_Original ==
  /\ (run.cmd = "vote" /\ ~InPercentRange(run.opt.weight)) =>
       /\ run.pc = "done"
       /\ run.exitCode = 1
       /\ net.calls = 0
       /\ net.submitted = <<>>
  /\ (run.cmd = "vote" /\ net.submitted # <<>>) =>
       /\ ~net.submitted[1][1][2].weight.nan
       /\ net.submitted[1][1][2].weight.n \in 100..10000

\* A vote of 150 per cent was submitted with weight 15000.
C13_Witness ==
  /\ run.cmd = "vote"
  /\ run.opt.weight = <<"1", "5", "0">>
  /\ run.pc = "done"
  /\ run.exitCode = 0
  /\ Len(net.submitted) = 1
  /\ net.submitted[1][1][2].weight = Num(15000)


(***************************************************************************)
(* the global option --node                                                *)
(***************************************************************************)

NodeFlags == {"https://n2"}

InitNode ==
  /\ env \in {Env(a, "ePK", Undef, Undef) : a \in {Undef, "eve"}}
  /\ file \in {NoFile, CorruptFile, FullFile, KeyOnlyFile}
  /\ lastWrite = NoWrite
  /\ run = IdleRun
  /\ net = NoNet
  /\ wait = NoWait
  /\ chain = NoChain

NextNode ==
  \/ \E n \in NodeFlags : PreAction(n)
  \/ \E c \in SocialCommands, flag \in FlagAccounts : StartSocial(c, flag, FALSE)
  \/ \E flag \in FlagAccounts : StartClaim(flag, FALSE)
  \/ \E reply \in ClaimReplies : FetchReply(reply)
  \/ \E o \in BroadcastOutcomes, sc \in ChainScenarios : BroadcastTx(o, sc)
  \/ Reset

SpecNode == InitNode /\ [][NextNode]_vars

\* The node the invocation should talk to: --node if given, else the
\* configured one, else the default.
ExpectedNode ==
  IF Truthy(env.node) THEN env.node
  ELSE IF Truthy(FileValue("node")) THEN FileValue("node")
  ELSE DEFAULT_NODE

\* C21: every call and broadcast of an invocation goes to the URL of --node
\* when the flag is given, else to the configured node, else to
\* https://api.hive.blog.  (The statement of the specification; nothing reads
\* the HIVE_NODE the hook sets.)
C21_Original ==
  (net.calls > 0 \/ net.submitted # <<>> \/ run.pc \in {"fetch", "broadcast"}) =>
    run.node = ExpectedNode

\* With --node https://n2 a transaction was submitted to the configured
\* node n1.
C21_Witness ==
  /\ env.node = "https://n2"
  /\ Len(net.submitted) = 1
  /\ run.exitCode = 0
  /\ run.node = "n1"

\* With --node https://n2 and no node configured, a call went to the default
\* node.
C21_WitnessDefault ==
  /\ env.node = "https://n2"
  /\ net.calls > 0
  /\ FileValue("node") = Undef
  /\ run.node = DEFAULT_NODE

====
